---- MODULE Spec2Model ----
(***************************************************************************)
(* A model of ghscan (formerly tj-scan): the IOC detector over run logs,   *)
(* the retry policy, the cache-file writers and the three-tier scan        *)
(* orchestrator.  Each component has a specification of its own            *)
(* (SpecParse, SpecRetry, SpecFile, SpecScan); the variables of the other  *)
(* components stay at their initial values under it.                       *)
(***************************************************************************)
EXTENDS Integers, Sequences, FiniteSets, TLC

VARIABLES
    \* ---- IOC detector (ParseLogs) ----
    logData,          \* the log text, a sequence of lines
    lineNum,          \* lines scanned so far
    checkEmptyLines,  \* ParseLogs' checkEmptyLines argument
    pl,               \* locals of ParseLogs (pkg/workflow/logs.go)
    iocMaps,          \* encodedMap/decodedMap of ParseLogs (IOC variant)
    parsePc,          \* "scan" | "done"
    parseRet          \* what ParseLogs returned

VARIABLES
    \* ---- retry policy (WithRetry) ----
    ctxErr,           \* ctx.Err(): "nil" | "Canceled" | "DeadlineExceeded"
    maxRetries,       \* viper.GetInt("max_retries")
    attempt,          \* WithRetry's attempt counter
    calls,            \* how many times the operation has been invoked
    retryPc,          \* "call" | "running" | "waiting" | "done"
    retryWait,        \* the wait chosen before the next attempt
    retryRet,         \* what WithRetry returned
    lastErr,          \* what the last attempt of the operation returned
    retryLog          \* the warnings WithRetry has logged, in order

VARIABLES
    \* ---- the cache file and its writers ----
    fsPath,           \* the file at the cache path
    fsTemp,           \* the file at <cache path>.temp
    memResults,       \* the results held in memory by the writing process
    writerPc,         \* where the writing process stands
    cleanCache        \* the cleanCache argument of LoadCache

VARIABLES
    \* ---- the scan orchestrator (Scan, scanWorkflows, scanRuns) ----
    world,            \* what GitHub holds for the repositories scanned
    reqOwner,         \* req.Owner/req.RepoName, shared by every task
    reqWorkflows,     \* req.Workflows, shared by every task
    cacheResults,     \* req.Cache.Results
    cachedResults,    \* req.CachedResults: the keys of the loaded cache
    sc,               \* Scan: its position, its errgroup, its limit
    rt,               \* the repository tasks of Scan's errgroup
    wt,               \* the workflow tasks of each scanWorkflows call
    ut                \* the run tasks of each scanRuns call

VARIABLES
    \* ---- the checkpoint collector (Scanner of pkg/action/scanner.go) ----
    chanResults,      \* s.results: the batches sent and not yet received
    chanClosed,       \* close(s.results) has been called
    scCache,          \* s.cache.Results
    collPc,           \* collect: "recv" | "done" (s.done is closed)
    added,            \* the batches Add has been called with, in order
    closePc           \* Close: "open" | "waiting" | "returned"

VARIABLES
    \* ---- one call of GetLogs (pkg/workflow/logs.go) ----
    runInfo,          \* what the run-status endpoint says about the run
    glPc,             \* where GetLogs stands
    glRequests,       \* the HTTP requests made so far, with their answers
    resp,             \* the answer the HTTP client is looking at
    glCaller,         \* the httpClient.Do call in progress
    glRet,            \* what GetLogs returned
    ui,               \* getUILogs: jobIDs, the jobs left, results, fetchErrors
    runRet            \* what the run task of scanRuns did with what GetLogs returned

VARIABLES
    \* ---- one call of ListWorkflowRuns; instants are in hours ----
    start,            \* the start argument
    end,              \* the end argument
    created,          \* the creation instants of the workflow's runs
    lwPc,             \* "split" | "list" | "returned"
    chunkStart,       \* the variable of the splitting loop
    timeChunks,       \* the sub-windows built so far
    nextChunk,        \* the index of the next sub-window to list
    allRuns,          \* the runs collected so far, by creation instant
    listFailed        \* the listing of some sub-window failed

VARIABLES
    \* ---- regex.FindAllStringSubmatch(line, -1) on one log line ----
    rxLine,           \* the line, as its runs of characters of one class
    rxPos,            \* the run at which the search for the next match resumes
    allMatches,       \* the captured tokens found so far
    rxPc              \* "find" | "done"

parseVars == <<logData, lineNum, checkEmptyLines, pl, iocMaps, parsePc, parseRet>>

retryVars == <<ctxErr, maxRetries, attempt, calls, retryPc, retryWait, retryRet,
              lastErr, retryLog>>

fileVars == <<fsPath, fsTemp, memResults, writerPc, cleanCache>>

scannerVars == <<chanResults, chanClosed, scCache, collPc, added, closePc>>

scanVars == <<world, reqOwner, reqWorkflows, cacheResults, cachedResults, sc, rt, wt, ut>>

logsVars == <<runInfo, glPc, glRequests, resp, glCaller, glRet, ui, runRet>>

listVars == <<start, end, created, lwPc, chunkStart, timeChunks, nextChunk, allRuns,
             listFailed>>

matchVars == <<rxLine, rxPos, allMatches, rxPc>>

vars == <<parseVars, retryVars, fileVars, scanVars, scannerVars, logsVars, listVars, matchVars>>

-----------------------------------------------------------------------------
(* Bounds *)

\* longest log text, in lines
MaxLines == 4

\* largest configured max_retries
MaxRetriesBound == 7

\* most results the writing process of SpecFile accumulates
MaxResults == 3

\* repositories handed to Scan
NumRepos == 2

\* most workflow files of a repository
MaxWorkflows == 3

\* most runs of a workflow in the scanned time range
MaxRuns == 3

\* most calls of Scanner.Add before Close
MaxBatches == 3

\* most Results in one batch
MaxBatchSize == 2

\* most redirects a server chain answers with in one GetLogs call
MaxHops == 3

\* most jobs the web page of a run lists
MaxJobs == 2

-----------------------------------------------------------------------------
(***************************************************************************)
(* Strings and base64.  A string is what the decoder can tell about it:    *)
(* enc is the number of base64 layers around its core (0: the string is    *)
(* not valid base64), and core says whether the innermost bytes are valid  *)
(* UTF-8 text ("text") or not ("bin").  Every layer of base64 is ASCII,    *)
(* hence valid UTF-8.                                                      *)
(***************************************************************************)
Str(n, c) == [enc |-> n, core |-> c]

\* base64.StdEncoding.DecodeString
DecodeString(s) ==
    IF s.enc = 0
      THEN [err |-> TRUE, val |-> s]
      ELSE [err |-> FALSE, val |-> [s EXCEPT !.enc = @ - 1]]

\* utf8.Valid
utf8Valid(s) == s.enc > 0 \/ s.core = "text"

Failed == [err |-> TRUE, val |-> Str(0, "text")]

\* the single-stage decoder of the IOC variant
tryBase64Decode(s) ==
    LET decoded == DecodeString(s) IN
    IF decoded.err THEN Failed
    ELSE IF ~utf8Valid(decoded.val) THEN Failed
    ELSE [err |-> FALSE, val |-> decoded.val]

\* the two-stage decoder of pkg/workflow/logs.go: both decodes must succeed
tryBase64DecodeDouble(s) ==
    LET decoded == DecodeString(s) IN
    IF decoded.err THEN Failed
    ELSE IF ~utf8Valid(decoded.val) THEN Failed
    ELSE LET doubleDecoded == DecodeString(decoded.val) IN
         IF doubleDecoded.err THEN Failed
         ELSE [err |-> FALSE, val |-> doubleDecoded.val]

-----------------------------------------------------------------------------
(***************************************************************************)
(* Log lines.  ts: the line starts with an ISO-8601 timestamp and          *)
(* whitespace; marker: it contains "##[group]changed-files"; localgit: it  *)
(* contains "Using local .git directory"; toks: the tokens the pattern     *)
(* (?:^|\s+)([A-Za-z0-9+/]{40,}={0,3}) captures on it, in order.           *)
(***************************************************************************)
Line(ts, marker, localgit, toks) ==
    [ts |-> ts, marker |-> marker, localgit |-> localgit, toks |-> toks]

\* the tokens a log of the model may carry (ASCII, so never a bare "bin")
Tokens == { Str(0, "text"), Str(1, "bin"), Str(1, "text"),
            Str(2, "bin"), Str(2, "text"), Str(3, "text") }

LineShapes ==
    { Line(FALSE, FALSE, FALSE, <<>>),      \* an empty line
      Line(TRUE, FALSE, FALSE, <<>>),       \* a timestamp and nothing else
      Line(TRUE, TRUE, FALSE, <<>>),        \* the group marker
      Line(TRUE, FALSE, TRUE, <<>>),        \* "Using local .git directory"
      Line(TRUE, TRUE, TRUE, <<>>) }        \* both on one line
    \cup { Line(TRUE, FALSE, FALSE, <<t>>) : t \in Tokens }

\* timestampRegex.ReplaceAllString(line, ""): the line without its timestamp
contentLine(line) == [line EXCEPT !.ts = FALSE]

\* strings.TrimSpace(contentLine) == "": nothing but whitespace is left
isLineEmpty(content) ==
    ~content.ts /\ ~content.marker /\ ~content.localgit /\ content.toks = <<>>

RECURSIVE SeqsUpTo(_, _)
SeqsUpTo(S, n) ==
    IF n = 0 THEN { <<>> }
    ELSE LET shorter == SeqsUpTo(S, n - 1) IN
         shorter \cup { Append(s, x) : s \in { t \in shorter : Len(t) = n - 1 }, x \in S }

Logs == SeqsUpTo(LineShapes, MaxLines)

-----------------------------------------------------------------------------
(***************************************************************************)
(* ParseLogs of pkg/workflow/logs.go (the checkEmptyLines variant).        *)
(***************************************************************************)
\* emptyLinesInfo: "" or "Log lines <from>-<to> after changed-files"
NoInfo == [from |-> 0, to |-> 0]

Base64Finding(m, d) == [Encoded |-> m, Decoded |-> d]

ParseLogsLocals ==
    [ base64Findings |-> <<>>,
      foundChangedFilesHeader |-> FALSE,
      emptyLinesSeen |-> <<>>,
      emptyLinesFound |-> FALSE,
      emptyLinesInfo |-> NoInfo,
      panicked |-> FALSE ]

\* the matches loop: every token that decodes twice is appended
RECURSIVE AppendFindings(_, _)
AppendFindings(findings, toks) ==
    IF toks = <<>> THEN findings
    ELSE LET m == Head(toks)
             decoded == tryBase64DecodeDouble(m) IN
         AppendFindings(IF decoded.err THEN findings
                        ELSE Append(findings, Base64Finding(m, decoded.val)),
                        Tail(toks))

\* mutant: the loop has no break, runs to the last index and reads past it
FirstConsecutiveNoBreak(seen, l) == [panic |-> TRUE, info |-> NoInfo, hit |-> FALSE]

\* for l := range emptyLinesSeen { if emptyLinesSeen[l+1] == emptyLinesSeen[l]+1 ... break }
\* (l counts from 1 here); reading past the last element panics
RECURSIVE FirstConsecutive(_, _)
FirstConsecutive(seen, l) ==
    IF l > Len(seen) THEN [panic |-> FALSE, info |-> NoInfo, hit |-> FALSE]
    ELSE IF l + 1 > Len(seen) THEN [panic |-> TRUE, info |-> NoInfo, hit |-> FALSE]
    ELSE IF seen[l + 1] = seen[l] + 1
      THEN [panic |-> FALSE, info |-> [from |-> seen[l], to |-> seen[l]], hit |-> TRUE]
      ELSE FirstConsecutive(seen, l + 1)

\* mutant: a disqualifying line does not reset the tracking
EmptyLinesStepNoReset(st, line, n) ==
    IF ~st.foundChangedFilesHeader /\ contentLine(line).marker
      THEN [st EXCEPT !.foundChangedFilesHeader = TRUE, !.emptyLinesSeen = <<>>]
    ELSE IF st.foundChangedFilesHeader /\ isLineEmpty(contentLine(line))
      THEN LET seen == Append(st.emptyLinesSeen, n)
               k == Len(seen) IN
           [st EXCEPT !.emptyLinesSeen = seen,
                      !.emptyLinesFound = @ \/ (k >= 2 /\ seen[k] = seen[k - 1] + 1)]
    ELSE st

\* the heuristic branch of the loop body
EmptyLinesStep(st, line, n) ==
    IF ~st.foundChangedFilesHeader /\ contentLine(line).marker
      THEN [st EXCEPT !.foundChangedFilesHeader = TRUE, !.emptyLinesSeen = <<>>]
    ELSE IF st.foundChangedFilesHeader
      THEN IF isLineEmpty(contentLine(line))
             THEN LET seen == Append(st.emptyLinesSeen, n)
                      k == Len(seen) IN
                  IF k >= 2 /\ seen[k] = seen[k - 1] + 1
                    THEN LET first == FirstConsecutive(seen, 1) IN
                         [st EXCEPT !.emptyLinesSeen = seen,
                                    !.emptyLinesFound = TRUE,
                                    !.emptyLinesInfo = IF first.hit THEN first.info ELSE @,
                                    !.panicked = @ \/ first.panic]
                    ELSE [st EXCEPT !.emptyLinesSeen = seen]
           ELSE IF contentLine(line).localgit \/ ~contentLine(line).marker
             THEN [st EXCEPT !.foundChangedFilesHeader = FALSE]
             ELSE st
    ELSE st

\* one iteration of the scanner.Scan() loop on line number n
ParseLogsLine(st, line, n, check) ==
    LET matched == [st EXCEPT !.base64Findings = AppendFindings(@, line.toks)] IN
    IF check THEN EmptyLinesStep(matched, line, n) ELSE matched

\* slices.Compact: consecutive duplicates collapse
RECURSIVE Compact(_)
Compact(s) ==
    IF Len(s) <= 1 THEN s
    ELSE IF s[1] = s[2] THEN Compact(Tail(s))
    ELSE <<s[1]>> \o Compact(Tail(s))

\* mutant: the heuristic text is not cleared when findings exist
ParseLogsReturnKeepInfo(st) ==
    [ findings |-> Compact(st.base64Findings),
      emptyLinesInfo |-> st.emptyLinesInfo,
      foundIssues |-> Len(st.base64Findings) > 0 \/ st.emptyLinesFound ]

\* the code after the loop: findings take priority over the heuristic text
ParseLogsReturn(st) ==
    [ findings |-> Compact(st.base64Findings),
      emptyLinesInfo |-> IF Len(st.base64Findings) > 0 THEN NoInfo ELSE st.emptyLinesInfo,
      foundIssues |-> Len(st.base64Findings) > 0 \/ st.emptyLinesFound ]

RECURSIVE ParseLogsFrom(_, _, _, _)
ParseLogsFrom(st, text, n, check) ==
    IF n > Len(text) THEN st
    ELSE ParseLogsFrom(ParseLogsLine(st, text[n], n, check), text, n + 1, check)

ParseLogs(text, check) == ParseLogsReturn(ParseLogsFrom(ParseLogsLocals, text, 1, check))

-----------------------------------------------------------------------------
(***************************************************************************)
(* ParseLogs of the IOC variant: processMatch and handleDecoded.           *)
(***************************************************************************)
NoIocRet == [findings |-> <<>>, foundIssues |-> FALSE]

\* lineMap, encodedMap, decodedMap; ret is what ParseLogs returned
IocLocals == [lineMap |-> {}, encodedMap |-> {}, decodedMap |-> {}, ret |-> NoIocRet]

\* findMatch for an IOC whose content is the group marker: a line that
\* contains it is kept with its timestamp stripped
findMatch(line, lineMap) ==
    IF line.marker THEN lineMap \cup {contentLine(line)} ELSE lineMap

\* strings.Join(slices.Collect(maps.Keys(m)), ","): the keys in the order the
\* map yields them, which is not fixed; a joined string is kept as the set
\* of its parts, the empty string being the empty set
Joined(m) == m

Finding(maps) ==
    [Encoded |-> Joined(maps.encodedMap), Decoded |-> Joined(maps.decodedMap),
     LineData |-> Joined(maps.lineMap)]

\* findings := []Finding{finding}; foundIssues := len(findings) > 0
IocReturn(maps) ==
    LET findings == << Finding(maps) >> IN
    [findings |-> findings, foundIssues |-> Len(findings) > 0]

handleDecoded(decoded, decodedMap) ==
    LET secondDecoded == tryBase64Decode(decoded) IN
    IF ~secondDecoded.err
      THEN decodedMap \cup {secondDecoded.val}
      ELSE decodedMap \cup {decoded}

RECURSIVE processMatch(_, _)
processMatch(toks, maps) ==
    IF toks = <<>> THEN maps
    ELSE LET encoded == Head(toks)
             decoded == tryBase64Decode(encoded) IN
         processMatch(Tail(toks),
                      IF decoded.err THEN maps
                      ELSE [maps EXCEPT
                              !.encodedMap = @ \cup {encoded},
                              !.decodedMap = handleDecoded(decoded.val, @)])

NoRet == [findings |-> <<>>, emptyLinesInfo |-> NoInfo, foundIssues |-> FALSE]

\* a file is absent, complete or partial (opened with O_TRUNC, write unfinished)
Absent == [state |-> "absent", data |-> <<>>]

Complete(results) == [state |-> "complete", data |-> results]

Partial == [state |-> "partial", data |-> <<>>]

\* the file exists and can be read, but its content is not a JSON cache
Corrupt == [state |-> "corrupt", data |-> <<>>]

\* the file exists and os.ReadFile fails on it
Unreadable == [state |-> "unreadable", data |-> <<>>]

\* the cache-file writers are not part of the run
FileIdle ==
    /\ fsPath = Absent
    /\ fsTemp = Absent
    /\ memResults = <<>>
    /\ writerPc = "halted"
    /\ cleanCache = FALSE

\* the tasks of the three errgroups before g.Go has been called for them
RepoIds == 1..NumRepos

WfSlots == 1..MaxWorkflows

RunSlots == 1..MaxRuns

NoStream == [of |-> <<>>, consumed |-> FALSE]

IdleRepo == [pc |-> "idle", wfs |-> <<>>, next |-> 1, err |-> FALSE, status |-> "none"]

IdleWorkflow ==
    [pc |-> "idle", name |-> 0, runs |-> <<>>, next |-> 1, err |-> FALSE,
     status |-> "none", rc |-> NoStream, runResults |-> <<>>, old |-> <<>>,
     listErr |-> FALSE]

IdleRun == [pc |-> "idle", id |-> <<>>, found |-> FALSE, findings |-> <<>>, status |-> "none"]

\* the orchestrator's variables while another component is being checked
ScanIdle ==
    /\ world = "pair"
    /\ reqOwner = 0
    /\ reqWorkflows = <<>>
    /\ cacheResults = <<>>
    /\ cachedResults = {}
    /\ sc = [pc |-> "returned", next |-> 1, err |-> FALSE, limit |-> 1]
    /\ rt = [r \in RepoIds |-> IdleRepo]
    /\ wt = [r \in RepoIds |-> [i \in WfSlots |-> IdleWorkflow]]
    /\ ut = [r \in RepoIds |-> [i \in WfSlots |-> [k \in RunSlots |-> IdleRun]]]

\* the collector's variables while another component is being checked
ScannerIdle ==
    /\ chanResults = <<>>
    /\ chanClosed = TRUE
    /\ scCache = <<>>
    /\ collPc = "done"
    /\ added = <<>>
    /\ closePc = "returned"

\* an HTTP answer: a status code and whether it carries a Location header;
\* status 0 stands for a transport error (Do returns err != nil)
Answer(status, location) == [status |-> status, location |-> location]

NoResp == Answer(0, FALSE)

\* the return values of GetLogs
NoLogsRet == [kind |-> "none", of |-> 0]

\* getUILogs before it has read the run page; fetched lists the jobs whose
\* log was retrieved, with the log, in the order scanUI was called
NoUI == [jobIDs |-> {}, pending |-> {}, fetched |-> <<>>, fetchErrors |-> <<>>]

\* the run task has not looked at what GetLogs returned
NoRunRet == [err |-> "pending", parsed |-> <<>>]

\* GetLogs is not part of the run
LogsIdle ==
    /\ ui = NoUI
    /\ runRet = NoRunRet
    /\ runInfo = [cancelled |-> FALSE, jobs |-> 1]
    /\ glPc = "done"
    /\ glRequests = <<>>
    /\ resp = NoResp
    /\ glCaller = "none"
    /\ glRet = NoLogsRet

\* the variables of ListWorkflowRuns while another component is being checked
ListIdle ==
    /\ start = 0
    /\ end = 0
    /\ created = {}
    /\ lwPc = "returned"
    /\ chunkStart = 0
    /\ timeChunks = <<>>
    /\ nextChunk = 1
    /\ allRuns = <<>>
    /\ listFailed = FALSE

\* the variables of the pattern match while another component is being checked
MatchIdle ==
    /\ rxLine = <<>>
    /\ rxPos = 1
    /\ allMatches = <<>>
    /\ rxPc = "done"

\* the detector's variables while another component is being checked
ParseIdle ==
    /\ logData = <<>>
    /\ checkEmptyLines = FALSE
    /\ lineNum = 0
    /\ pl = ParseLogsLocals
    /\ iocMaps = IocLocals
    /\ parsePc = "done"
    /\ parseRet = NoRet

-----------------------------------------------------------------------------
(***************************************************************************)
(* WithRetry of pkg/request/retry.go, run by backoff.Retry: the wrapped    *)
(* operation is called again after a wait until it returns nil or a        *)
(* permanent error, or until the context is done.                          *)
(***************************************************************************)
\* the errors an operation may return, by what WithRetry reads in their text
OpErrors == {"generic", "rate limit", "403"}

NoWait == [kind |-> "none", secs |-> 0]

Ret(kind, cause) == [kind |-> kind, cause |-> cause]

NoRetryRet == Ret("none", "none")

Min(a, b) == IF a < b THEN a ELSE b

\* mutant: the rate-limit wait grows without the 30 second cap
retryAfterUncapped(k) == 5 * k

\* min(5*time.Second*time.Duration(attempt), 30*time.Second), in seconds
retryAfter(k) == Min(5 * k, 30)

\* mutant: the retry budget is one attempt short
maxRetriesExceededOffByOne(k, n) == k >= n

\* if attempt > maxRetries
maxRetriesExceeded(k, n) == k > n

\* mutant: the wrapped operation does not look at the context first
ctxDoneBeforeAttemptIgnored(e) == FALSE

\* if ctx.Err() != nil, at the head of wrappedOperation
ctxDoneBeforeAttempt(e) == e # "nil"

\* what wrappedOperation returns for an operation error err on attempt k:
\* a permanent error, a RetryAfter error or err itself
classify(err, k, n, e) ==
    IF maxRetriesExceeded(k, n)
      THEN [permanent |-> TRUE, ret |-> Ret("max retries exceeded", err), wait |-> NoWait]
    ELSE IF e = "DeadlineExceeded"
      THEN [permanent |-> TRUE, ret |-> Ret("operation timed out", err), wait |-> NoWait]
    ELSE IF err \in {"rate limit", "403"}
      THEN [permanent |-> FALSE, ret |-> NoRetryRet,
            wait |-> [kind |-> "retryAfter", secs |-> retryAfter(k)]]
    ELSE [permanent |-> FALSE, ret |-> NoRetryRet,
          wait |-> [kind |-> "backoff", secs |-> 0]]

\* what wrappedOperation logs with logger.Warnf for an operation error err
\* on attempt k
Warnings(err, k, n, e) ==
    IF maxRetriesExceeded(k, n) \/ e = "DeadlineExceeded" THEN <<>>
    ELSE IF err \in {"rate limit", "403"} THEN <<"Hit rate limit, waiting">>
    ELSE <<"Operation failed">>

RetryIdle ==
    /\ ctxErr = "nil"
    /\ maxRetries = 0
    /\ attempt = 0
    /\ calls = 0
    /\ retryPc = "done"
    /\ retryWait = NoWait
    /\ retryRet = NoRetryRet
    /\ lastErr = "none"
    /\ retryLog = <<>>

RetryInit ==
    /\ ctxErr = "nil"
    /\ maxRetries \in 0..MaxRetriesBound
    /\ attempt = 0
    /\ calls = 0
    /\ retryPc = "call"
    /\ retryWait = NoWait
    /\ retryRet = NoRetryRet
    /\ lastErr = "none"
    /\ retryLog = <<>>
    /\ ParseIdle
    /\ MatchIdle
    /\ ListIdle
    /\ LogsIdle
    /\ ScannerIdle
    /\ FileIdle
    /\ ScanIdle

\* the context is cancelled (the scan's cancel function, or a parent's)
CtxCancel ==
    /\ retryPc # "done"
    /\ ctxErr = "nil"
    /\ ctxErr' = "Canceled"
    /\ UNCHANGED <<maxRetries, attempt, calls, retryPc, retryWait, retryRet>>
    /\ UNCHANGED <<lastErr, retryLog>>
    /\ UNCHANGED <<parseVars, fileVars, scanVars, scannerVars, logsVars, listVars, matchVars>>

\* the context's deadline, or the deadline of the scan it derives from, passes
CtxDeadline ==
    /\ retryPc # "done"
    /\ ctxErr = "nil"
    /\ ctxErr' = "DeadlineExceeded"
    /\ UNCHANGED <<maxRetries, attempt, calls, retryPc, retryWait, retryRet>>
    /\ UNCHANGED <<lastErr, retryLog>>
    /\ UNCHANGED <<parseVars, fileVars, scanVars, scannerVars, logsVars, listVars, matchVars>>

\* backoff.Retry calls wrappedOperation: a done context ends the sequence
\* with a permanent error before the operation is touched
AttemptRefused ==
    /\ retryPc = "call"
    /\ ctxDoneBeforeAttempt(ctxErr)
    /\ retryPc' = "done"
    /\ retryRet' = Ret("context", ctxErr)
    /\ UNCHANGED <<ctxErr, maxRetries, attempt, calls, retryWait>>
    /\ UNCHANGED <<lastErr, retryLog>>
    /\ UNCHANGED <<parseVars, fileVars, scanVars, scannerVars, logsVars, listVars, matchVars>>

\* ... otherwise attempt++ and the operation is invoked
AttemptStart ==
    /\ retryPc = "call"
    /\ ~ctxDoneBeforeAttempt(ctxErr)
    /\ attempt' = attempt + 1
    /\ calls' = calls + 1
    /\ retryPc' = "running"
    /\ retryWait' = NoWait
    /\ UNCHANGED <<ctxErr, maxRetries, retryRet>>
    /\ UNCHANGED <<lastErr, retryLog>>
    /\ UNCHANGED <<parseVars, fileVars, scanVars, scannerVars, logsVars, listVars, matchVars>>

\* the operation returns nil
OperationSucceeds ==
    /\ retryPc = "running"
    /\ retryPc' = "done"
    /\ retryRet' = Ret("nil", "none")
    /\ UNCHANGED <<ctxErr, maxRetries, attempt, calls, retryWait>>
    /\ lastErr' = "nil"
    /\ UNCHANGED retryLog
    /\ UNCHANGED <<parseVars, fileVars, scanVars, scannerVars, logsVars, listVars, matchVars>>

\* the operation returns an error: wrappedOperation classifies it, and
\* backoff.Retry returns on a permanent error or a done context and
\* otherwise starts the wait
OperationFails ==
    /\ retryPc = "running"
    /\ \E err \in OpErrors :
         /\ lastErr' = err
         /\ retryLog' = retryLog \o Warnings(err, attempt, maxRetries, ctxErr)
         /\ LET c == classify(err, attempt, maxRetries, ctxErr) IN
              IF c.permanent
                THEN /\ retryPc' = "done"
                     /\ retryRet' = c.ret
                     /\ UNCHANGED retryWait
              ELSE IF ctxErr # "nil"
                THEN /\ retryPc' = "done"
                     /\ retryRet' = Ret("context", ctxErr)
                     /\ UNCHANGED retryWait
              ELSE /\ retryPc' = "waiting"
                   /\ retryWait' = c.wait
                   /\ UNCHANGED retryRet
    /\ UNCHANGED <<ctxErr, maxRetries, attempt, calls>>
    /\ UNCHANGED <<parseVars, fileVars, scanVars, scannerVars, logsVars, listVars, matchVars>>

\* select: the timer fires
WaitElapses ==
    /\ retryPc = "waiting"
    /\ retryPc' = "call"
    /\ UNCHANGED <<ctxErr, maxRetries, attempt, calls, retryWait, retryRet>>
    /\ UNCHANGED <<lastErr, retryLog>>
    /\ UNCHANGED <<parseVars, fileVars, scanVars, scannerVars, logsVars, listVars, matchVars>>

\* select: ctx.Done() is ready
WaitInterrupted ==
    /\ retryPc = "waiting"
    /\ ctxErr # "nil"
    /\ retryPc' = "done"
    /\ retryRet' = Ret("context", ctxErr)
    /\ UNCHANGED <<ctxErr, maxRetries, attempt, calls, retryWait>>
    /\ UNCHANGED <<lastErr, retryLog>>
    /\ UNCHANGED <<parseVars, fileVars, scanVars, scannerVars, logsVars, listVars, matchVars>>

RetryNext ==
    \/ CtxCancel
    \/ CtxDeadline
    \/ AttemptRefused
    \/ AttemptStart
    \/ OperationSucceeds
    \/ OperationFails
    \/ WaitElapses
    \/ WaitInterrupted

SpecRetry == RetryInit /\ [][RetryNext]_vars

(***************************************************************************)
(* Properties of the retry policy (checked under SpecRetry).               *)
(***************************************************************************)

C6_NoAttemptAfterDone ==
    [][ ctxErr # "nil" =>
          /\ calls' = calls
          /\ retryPc' # "running" \/ retryPc = "running"
          /\ retryPc = "running" => retryPc' \in {"running", "done"}
          /\ (retryPc # "running" /\ retryPc' = "done") => retryRet'.kind = "context"
      ]_vars

\* a retry sequence was cut short by the context after at least one attempt
C6_Witness ==
    /\ retryPc = "done"
    /\ ctxErr # "nil"
    /\ calls >= 1
    /\ calls <= maxRetries
    /\ retryRet.kind = "context"

\* the errors wrappedOperation takes for a rate limit: strings.Contains(
\* err.Error(), "rate limit") || strings.Contains(err.Error(), "403")
RateLimitErrors == {"rate limit", "403"}

C27_TimedOutWhateverAttempt ==
    [][ /\ ( /\ retryPc = "running"
             /\ retryPc' # "running"
             /\ lastErr' \in OpErrors
             /\ ctxErr = "DeadlineExceeded" ) =>
              /\ retryPc' = "done"
              /\ retryRet' = Ret("operation timed out", lastErr')
        /\ retryPc = "done" => calls' = calls
      ]_vars

\* C33: warnings.  Every attempt that fails, the last one and those failing
\* with a rate-limit error included, adds a warning to the log; every
\* rate-limit wait is announced by a warning; an attempt that succeeds logs
\* nothing.
C33_WarningPerFailure ==
    [][ /\ ( retryPc = "running" /\ retryPc' # "running" /\ lastErr' \in OpErrors ) =>
              Len(retryLog') = Len(retryLog) + 1
        /\ ( retryPc' = "waiting" /\ retryPc # "waiting" /\ retryWait'.kind = "retryAfter" ) =>
              /\ Len(retryLog') = Len(retryLog) + 1
              /\ retryLog'[Len(retryLog')] = "Hit rate limit, waiting"
        /\ ( retryPc = "running" /\ lastErr' = "nil" ) => retryLog' = retryLog
      ]_vars

\* a failed attempt is not logged only when it ends WithRetry with "max
\* retries exceeded" or "operation timed out"
WarningUnlessPermanent ==
    [][ ( retryPc = "running" /\ retryPc' # "running" /\ lastErr' \in OpErrors ) =>
          IF retryPc' = "done" /\ retryRet'.kind \in {"max retries exceeded", "operation timed out"}
            THEN retryLog' = retryLog
            ELSE Len(retryLog') = Len(retryLog) + 1 ]_vars

-----------------------------------------------------------------------------
(***************************************************************************)
(* The cache file and its writers: WriteCache and WriteResults of          *)
(* pkg/file/output.go.  A file is absent, complete (it holds the whole of  *)
(* data) or partial (it was opened with O_TRUNC and the write has not      *)
(* finished).  The process may be interrupted between any two steps.       *)
(***************************************************************************)
\* the results a session of SpecFile may find
FileResults == {"a", "b"}

\* os.ReadFile returns an error: there is no file, or it cannot be read
ReadFileFails(file) == file.state \in {"absent", "unreadable"}

\* json.Unmarshal returns an error: the content is not a serialized cache
UnmarshalFails(file) == file.state # "complete"

\* mutant: the loader does not look at cleanCache
LoadCacheKeeping(file, clean) ==
    IF ReadFileFails(file) THEN <<>>
    ELSE IF UnmarshalFails(file) THEN <<>>
    ELSE file.data

\* LoadCache / LoadExistingCache: the Results of the returned cache
LoadCache(file, clean) ==
    IF ReadFileFails(file) \/ clean THEN <<>>
    ELSE IF UnmarshalFails(file) THEN <<>>
    ELSE file.data

\* the path holds nothing, something that is no cache, or the cache of an
\* earlier session
FileInit ==
    /\ fsPath \in {Absent, Unreadable, Corrupt, Complete(<<>>), Complete(<<"a">>)}
    /\ fsTemp = Absent
    /\ memResults = <<>>
    /\ writerPc = "load"
    /\ cleanCache \in BOOLEAN
    /\ ParseIdle
    /\ RetryIdle
    /\ MatchIdle
    /\ ListIdle
    /\ LogsIdle
    /\ ScannerIdle
    /\ ScanIdle

\* the session starts by loading the cache; the file is only read
LoadCacheCall ==
    /\ writerPc = "load"
    /\ memResults' = LoadCache(fsPath, cleanCache)
    /\ writerPc' = "idle"
    /\ UNCHANGED <<fsPath, fsTemp, cleanCache>>
    /\ UNCHANGED <<parseVars, retryVars, scanVars, scannerVars, logsVars, listVars, matchVars>>

\* a result is appended to the in-memory cache
AppendResult ==
    /\ writerPc = "idle"
    /\ Len(memResults) < MaxResults
    /\ \E x \in FileResults : memResults' = Append(memResults, x)
    /\ UNCHANGED <<fsPath, fsTemp, writerPc>>
    /\ UNCHANGED cleanCache
    /\ UNCHANGED <<parseVars, retryVars, scanVars, scannerVars, logsVars, listVars, matchVars>>

\* WriteCache: os.WriteFile(tempFile, ...) opens the temporary file
WriteCacheOpenTemp ==
    /\ writerPc = "idle"
    /\ fsTemp' = Partial
    /\ writerPc' = "wc_writing"
    /\ UNCHANGED <<fsPath, memResults>>
    /\ UNCHANGED cleanCache
    /\ UNCHANGED <<parseVars, retryVars, scanVars, scannerVars, logsVars, listVars, matchVars>>

\* ... and writes the serialized cache into it
WriteCacheWriteTemp ==
    /\ writerPc = "wc_writing"
    /\ fsTemp' = Complete(memResults)
    /\ writerPc' = "wc_written"
    /\ UNCHANGED <<fsPath, memResults>>
    /\ UNCHANGED cleanCache
    /\ UNCHANGED <<parseVars, retryVars, scanVars, scannerVars, logsVars, listVars, matchVars>>

\* ... or fails: the error is logged and WriteCache returns
WriteCacheWriteFails ==
    /\ writerPc = "wc_writing"
    /\ writerPc' = "idle"
    /\ UNCHANGED <<fsPath, fsTemp, memResults>>
    /\ UNCHANGED cleanCache
    /\ UNCHANGED <<parseVars, retryVars, scanVars, scannerVars, logsVars, listVars, matchVars>>

\* WriteCache: os.Rename(tempFile, clean)
WriteCacheRename ==
    /\ writerPc = "wc_written"
    /\ fsPath' = fsTemp
    /\ fsTemp' = Absent
    /\ writerPc' = "idle"
    /\ UNCHANGED memResults
    /\ UNCHANGED cleanCache
    /\ UNCHANGED <<parseVars, retryVars, scanVars, scannerVars, logsVars, listVars, matchVars>>

\* WriteResults: os.WriteFile(<results dir>/cacheFile, ...) opens the cache
\* path itself with O_TRUNC
WriteResultsOpen ==
    /\ writerPc = "idle"
    /\ fsPath' = Partial
    /\ writerPc' = "wr_writing"
    /\ UNCHANGED <<fsTemp, memResults>>
    /\ UNCHANGED cleanCache
    /\ UNCHANGED <<parseVars, retryVars, scanVars, scannerVars, logsVars, listVars, matchVars>>

\* ... and writes the serialized cache into it; the session is over
WriteResultsWrite ==
    /\ writerPc = "wr_writing"
    /\ fsPath' = Complete(memResults)
    /\ writerPc' = "finished"
    /\ UNCHANGED <<fsTemp, memResults>>
    /\ UNCHANGED cleanCache
    /\ UNCHANGED <<parseVars, retryVars, scanVars, scannerVars, logsVars, listVars, matchVars>>

\* the process is killed
Interrupt ==
    /\ writerPc \notin {"halted", "finished"}
    /\ writerPc' = "halted"
    /\ UNCHANGED <<fsPath, fsTemp, memResults>>
    /\ UNCHANGED cleanCache
    /\ UNCHANGED <<parseVars, retryVars, scanVars, scannerVars, logsVars, listVars, matchVars>>

FileNext ==
    \/ LoadCacheCall
    \/ AppendResult
    \/ WriteCacheOpenTemp
    \/ WriteCacheWriteTemp
    \/ WriteCacheWriteFails
    \/ WriteCacheRename
    \/ WriteResultsOpen
    \/ WriteResultsWrite
    \/ Interrupt

SpecFile == FileInit /\ [][FileNext]_vars

(***************************************************************************)
(* Properties of the cache-file writers (checked under SpecFile).          *)
(***************************************************************************)

\* C4: every write of the cache file is atomic, so the cache path never
\* holds a truncated or partially written file, whichever writer is at
\* work and wherever it is interrupted.
C4_PathNeverPartial == fsPath.state # "partial"

\* C16: loading the cache never ends the program and never changes the
\* file; it returns the persisted Results when the file exists, can be read,
\* parses and no reset was asked for, and an empty cache in every other case.
C16_LoadCacheTotal ==
    [][ writerPc = "load" /\ writerPc' # "halted" =>
          /\ writerPc' = "idle"
          /\ fsPath' = fsPath
          /\ fsTemp' = fsTemp
          /\ memResults' =
                (IF fsPath.state = "complete" /\ ~cleanCache THEN fsPath.data ELSE <<>>) ]_vars

\* a reset was asked for although the file held a Result: the session went
\* on with an empty cache and the file as it was
C16_Witness ==
    /\ writerPc = "idle"
    /\ cleanCache
    /\ memResults = <<>>
    /\ fsPath = Complete(<<"a">>)

-----------------------------------------------------------------------------
(* The detector as a state machine: one step per log line. *)

ParseInit ==
    /\ logData \in Logs
    /\ checkEmptyLines \in BOOLEAN
    /\ lineNum = 0
    /\ pl = ParseLogsLocals
    /\ iocMaps = IocLocals
    /\ parsePc = "scan"
    /\ parseRet = NoRet
    /\ RetryIdle
    /\ MatchIdle
    /\ ListIdle
    /\ LogsIdle
    /\ ScannerIdle
    /\ FileIdle
    /\ ScanIdle

ScanLine ==
    /\ parsePc = "scan"
    /\ lineNum < Len(logData)
    /\ lineNum' = lineNum + 1
    /\ pl' = ParseLogsLine(pl, logData[lineNum + 1], lineNum + 1, checkEmptyLines)
    /\ iocMaps' = processMatch(logData[lineNum + 1].toks,
                               [iocMaps EXCEPT !.lineMap = findMatch(logData[lineNum + 1], @)])
    /\ UNCHANGED <<logData, checkEmptyLines, parsePc, parseRet>>
    /\ UNCHANGED <<retryVars, fileVars, scanVars, scannerVars, logsVars, listVars, matchVars>>

ParseReturn ==
    /\ parsePc = "scan"
    /\ lineNum = Len(logData)
    /\ parsePc' = "done"
    /\ parseRet' = ParseLogsReturn(pl)
    /\ iocMaps' = [iocMaps EXCEPT !.ret = IocReturn(iocMaps)]
    /\ UNCHANGED <<logData, checkEmptyLines, lineNum, pl>>
    /\ UNCHANGED <<retryVars, fileVars, scanVars, scannerVars, logsVars, listVars, matchVars>>

ParseNext == ScanLine \/ ParseReturn

SpecParse == ParseInit /\ [][ParseNext]_vars

-----------------------------------------------------------------------------
(***************************************************************************)
(* Properties of the detector (checked under SpecParse).                   *)
(***************************************************************************)

HasToken(i) == logData[i].toks # <<>>

\* the tokens on the lines scanned so far
SeenTokens == { logData[i].toks[1] : i \in { k \in 1..lineNum : HasToken(k) } }

\* C7: priority law.  Whenever ParseLogs returns at least one base64 finding,
\* the heuristic text it returns is empty, even if the blank-line pass matched
\* in the same log; a non-empty heuristic text is returned only with no finding.
C7_PriorityLaw ==
    parsePc = "done" =>
        /\ (parseRet.findings # <<>> => parseRet.emptyLinesInfo = NoInfo)
        /\ (parseRet.emptyLinesInfo # NoInfo => pl.base64Findings = <<>>)

\* a log in which both passes matched has been parsed
C7_Witness ==
    /\ parsePc = "done"
    /\ pl.emptyLinesFound
    /\ pl.emptyLinesInfo # NoInfo
    /\ parseRet.findings # <<>>
    /\ parseRet.emptyLinesInfo = NoInfo

\* what the decode rule asks of a token, stated on the token's structure:
\* its first decode succeeds and yields valid UTF-8
FirstDecodeOk(t) == t.enc >= 1 /\ (t.enc = 1 => t.core = "text")

\* the second decode succeeds too and yields valid UTF-8
SecondDecodeOk(t) == t.enc >= 2 /\ (t.enc = 2 => t.core = "text")

ExpectedPayload(t) ==
    IF SecondDecodeOk(t) THEN Str(t.enc - 2, t.core) ELSE Str(t.enc - 1, t.core)

\* the IOC variant (processMatch/handleDecoded with the single-stage
\* decoder) keeps exactly the tokens whose first decode is valid, with the
\* doubly decoded payload when there is one and the singly decoded otherwise
IocDecodeRule ==
    /\ iocMaps.encodedMap = { t \in SeenTokens : FirstDecodeOk(t) }
    /\ iocMaps.decodedMap =
           { ExpectedPayload(t) : t \in { u \in SeenTokens : FirstDecodeOk(u) } }

\* C8: decode rule of the pattern pass.  A token yields a finding iff its
\* first base64 decode succeeds and is valid UTF-8; the finding's payload is
\* the doubly decoded text when the second decode is valid base64 and valid
\* UTF-8 too, and the singly decoded text otherwise.
C8_FindingIffFirstDecode ==
    parsePc = "done" =>
        /\ { parseRet.findings[j].Encoded : j \in 1..Len(parseRet.findings) }
               = { t \in SeenTokens : FirstDecodeOk(t) }
        /\ \A j \in 1..Len(parseRet.findings) :
               parseRet.findings[j].Decoded = ExpectedPayload(parseRet.findings[j].Encoded)

\* the lines of the log that contain the IOC's content, timestamps stripped
ContentLines == { contentLine(logData[i]) : i \in { k \in 1..Len(logData) : logData[k].marker } }

\* the IOC variant always returns one Finding that holds the distinct
\* tokens, payloads and lines
IocOneAggregate ==
    parsePc = "done" =>
      LET tokens == { t \in SeenTokens : FirstDecodeOk(t) } IN
      /\ iocMaps.ret.foundIssues
      /\ iocMaps.ret.findings =
           << [Encoded |-> tokens,
               Decoded |-> { ExpectedPayload(t) : t \in tokens },
               LineData |-> ContentLines] >>

\* C31: aggregated finding of the IOC variant.  For a log in which a content
\* line or a decodable token matched, ParseLogs returns exactly one Finding
\* holding the distinct encoded tokens, decoded payloads and matching lines,
\* with found = true; for a log in which nothing matched it returns no
\* Finding and found = false.
C31_OneFindingOrNone ==
    parsePc = "done" =>
      LET tokens == { t \in SeenTokens : FirstDecodeOk(t) } IN
      IF tokens # {} \/ ContentLines # {}
        THEN /\ iocMaps.ret.foundIssues
             /\ iocMaps.ret.findings =
                  << [Encoded |-> tokens,
                      Decoded |-> { ExpectedPayload(t) : t \in tokens },
                      LineData |-> ContentLines] >>
        ELSE /\ ~iocMaps.ret.foundIssues
             /\ iocMaps.ret.findings = <<>>

IsPlainMarker(line) == line.marker /\ ~line.localgit

IsBlank(line) == ~line.marker /\ ~line.localgit /\ line.toks = <<>>

\* the first marker line of the log is line n - 1 and lines n, n + 1 are blank
MarkerThenTwoBlanks(n) ==
    /\ n >= 2
    /\ n + 1 <= Len(logData)
    /\ IsPlainMarker(logData[n - 1])
    /\ \A i \in 1..(n - 2) : ~logData[i].marker
    /\ IsBlank(logData[n])
    /\ IsBlank(logData[n + 1])

\* C9: with the heuristic enabled and no base64 finding, a log whose marker
\* line is immediately followed by blank lines n and n+1 makes ParseLogs
\* return found = true and a text naming lines n and n+1.
C9_TextNamesBothLines ==
    (parsePc = "done" /\ checkEmptyLines /\ parseRet.findings = <<>>) =>
        \A n \in 2..MaxLines :
            MarkerThenTwoBlanks(n) =>
                /\ parseRet.foundIssues
                /\ parseRet.emptyLinesInfo = [from |-> n, to |-> n + 1]


\* a non-blank line that contains "Using local .git directory" or does not
\* contain the marker
Disqualifies(line) == ~IsBlank(line) /\ (line.localgit \/ ~line.marker)

\* whether blank lines count after line n of the log: tracking begins at a
\* line with the marker and ends at a disqualifying line
RECURSIVE Tracking(_)
Tracking(n) ==
    IF n = 0 THEN FALSE
    ELSE IF ~Tracking(n - 1) THEN logData[n].marker
    ELSE ~Disqualifies(logData[n])

\* line n is blank and counts
CountedBlank(n) == IsBlank(logData[n]) /\ Tracking(n - 1)

\* C34: reset of the heuristic.  With the heuristic on, the blank lines
\* tracked are blank lines met while tracking is on, none of them after a
\* disqualifying line that no marker line has followed, and a finding is
\* reported only when two counted blank lines stand at consecutive line
\* numbers.
C34_ResetAndConsecutive ==
    checkEmptyLines =>
      /\ pl.foundChangedFilesHeader = Tracking(lineNum)
      /\ \A j \in 1..Len(pl.emptyLinesSeen) :
            /\ pl.emptyLinesSeen[j] \in 1..lineNum
            /\ CountedBlank(pl.emptyLinesSeen[j])
      /\ pl.emptyLinesFound =>
            \E n \in 1..(lineNum - 1) : CountedBlank(n) /\ CountedBlank(n + 1)
      /\ parsePc = "done" /\ parseRet.findings = <<>> =>
            (parseRet.foundIssues <=> pl.emptyLinesFound)

\* a marker, a disqualifying line and two blank lines have been scanned and
\* nothing is reported
C34_Witness ==
    /\ parsePc = "done"
    /\ checkEmptyLines
    /\ Len(logData) = 4
    /\ IsPlainMarker(logData[1])
    /\ logData[2].localgit
    /\ IsBlank(logData[3])
    /\ IsBlank(logData[4])
    /\ ~parseRet.foundIssues


-----------------------------------------------------------------------------
(***************************************************************************)
(* The scan orchestrator: Scan, scanWorkflows and scanRuns.  Each tier is  *)
(* an errgroup made by errgroup.WithContext with a limit; a task that      *)
(* returns an error sets the group's err and cancels the group's context,  *)
(* which only the select at the head of each task looks at.  The parent    *)
(* calls g.Go for every element of its list (g.Go waits for a free slot)   *)
(* and then g.Wait.  All tasks share one *Request.                         *)
(***************************************************************************)
\* g.SetLimit(2) of scanWorkflows and of scanRuns
WorkflowLimit == 2

RunLimit == 2

\* if len(req.Cache.Results)%10 == 0 { file.WriteCache(...) }
FlushSize == 10

\* Three worlds are scanned.  In "pair" every repository has workflow
\* files: the first has all but one of the most a repository may have and
\* its first workflow all but one of the most runs; each other repository
\* has one workflow with one run.  In "wide" only the first repository has
\* workflow files, the most there may be, and none of them has a run.  In
\* "deep" only the first repository has a workflow file, with the most runs.
\* In "lossy" only the first repository has a workflow file, and the API
\* fails the listing of the sub-window that holds its runs.
Worlds == {"pair", "wide", "deep", "lossy"}

\* what SearchWorkflowFiles finds in repository r
WorkflowPaths(r) ==
    IF r = 1
      THEN IF world = "wide" THEN [i \in 1..MaxWorkflows |-> i]
           ELSE IF world = "pair" THEN [i \in 1..(MaxWorkflows - 1) |-> i]
           ELSE <<1>>
    ELSE IF world = "pair" THEN <<1>> ELSE <<>>

HasWorkflow(q, w) == \E i \in 1..Len(WorkflowPaths(q)) : WorkflowPaths(q)[i] = w

\* what ListWorkflowRuns finds for workflow file w of repository q in the
\* scanned time range (a run is named by its repository, workflow and number)
WorkflowRuns(q, w) ==
    IF world = "wide" \/ w # 1 THEN <<>>
    ELSE IF q = 1
      THEN [k \in 1..(IF world = "deep" THEN MaxRuns ELSE MaxRuns - 1) |-> <<q, w, k>>]
    ELSE << <<q, w, 1>> >>

\* the listing of a sub-window of workflow file w of repository q fails
\* through all its retries
ListingFails(q, w) == world = "lossy" /\ q = 1 /\ w = 1

\* what ListWorkflowRuns returns, always with a nil error: the runs of the
\* sub-windows whose listing succeeded; a listing that failed is logged with
\* Warnf and its runs are left out
ListWorkflowRuns(q, w) == IF ListingFails(q, w) THEN <<>> ELSE WorkflowRuns(q, w)

\* the third run of a workflow was cancelled before it had any job: GetLogs
\* answers with the text "Run %d was canceled with no jobs"
CancelledNoJobs(id) == id[3] = 3

\* the logs of the runs: a twice-encoded token, the marker followed by two
\* blank lines, or nothing of interest
TokenLog == << Line(TRUE, FALSE, FALSE, <<Str(2, "text")>>) >>

HeuristicLog ==
    << Line(TRUE, TRUE, FALSE, <<>>), Line(FALSE, FALSE, FALSE, <<>>),
       Line(FALSE, FALSE, FALSE, <<>>) >>

CleanLog == << Line(TRUE, FALSE, FALSE, <<>>) >>

RunLog(id) ==
    IF id[3] = 1 THEN TokenLog ELSE IF id[3] = 2 THEN HeuristicLog ELSE CleanLog

\* tjscan.Result as scanRuns builds it
Result(owner, wfFileName, runID, finding, emptyLines) ==
    [ Repository |-> owner, WorkflowFileName |-> wfFileName,
      WorkflowRunURL |-> <<owner, runID>>,
      Base64Data |-> finding.Encoded, DecodedData |-> finding.Decoded,
      EmptyLines |-> emptyLines ]

\* for _, finding := range base64Findings { findings = append(findings, res) }
RECURSIVE BuildFindings(_, _, _, _, _)
BuildFindings(owner, wfFileName, runID, base64Findings, emptyLines) ==
    IF base64Findings = <<>> THEN <<>>
    ELSE <<Result(owner, wfFileName, runID, Head(base64Findings), emptyLines)>>
         \o BuildFindings(owner, wfFileName, runID, Tail(base64Findings), emptyLines)

\* a Result of an earlier session, found in the cache file
Preloaded ==
    Result(2, 1, <<2, 1, 1>>, Base64Finding(Str(2, "text"), Str(0, "text")), NoInfo)

\* existingResultsMap[repo|workflow] = true for every cached Result
CacheKeys(results) ==
    { <<results[j].Repository, results[j].WorkflowFileName>> : j \in 1..Len(results) }

Active(tasks) == Cardinality({ x \in DOMAIN tasks : tasks[x].pc \notin {"idle", "done"} })

\* mutant: an errgroup without SetLimit
HasFreeSlotAlways(tasks, limit) == TRUE

\* g.Go returns once fewer than limit tasks of the group are running
HasFreeSlot(tasks, limit) == Active(tasks) < limit

AllDone(tasks, n) == \A x \in 1..n : tasks[x].pc = "done"

\* errgroup: g.Wait returns the first non-nil error returned by a task of
\* the group, nil when every task returned nil
GroupErr(first, taskErr) == first \/ taskErr

\* file.WriteCache, whole
WriteCache(results) == Complete(results)

ScanInit ==
    /\ world \in Worlds
    /\ reqOwner = 0
    /\ reqWorkflows = <<>>
    /\ cacheResults \in { <<>>, <<Preloaded>> }
    /\ cachedResults = CacheKeys(cacheResults)
    /\ sc \in { [pc |-> "spawn", next |-> 1, err |-> FALSE, limit |-> n] : n \in 1..NumRepos }
    /\ rt = [r \in RepoIds |-> IdleRepo]
    /\ wt = [r \in RepoIds |-> [i \in WfSlots |-> IdleWorkflow]]
    /\ ut = [r \in RepoIds |-> [i \in WfSlots |-> [k \in RunSlots |-> IdleRun]]]
    /\ fsPath = (IF cacheResults = <<>> THEN Absent ELSE Complete(cacheResults))
    /\ fsTemp = Absent
    /\ memResults = <<>>
    /\ writerPc = "halted"
    /\ cleanCache = FALSE
    /\ ParseIdle
    /\ RetryIdle
    /\ MatchIdle
    /\ ListIdle
    /\ LogsIdle
    /\ ScannerIdle

\* ---- Scan ----

\* no goroutine has panicked: the program is still running
Running ==
    \A r \in RepoIds, i \in WfSlots, k \in RunSlots : ut[r][i][k].status # "panicked"

\* g.Go of the next repository, once a slot is free
ScanSpawnRepo ==
    /\ sc.pc = "spawn"
    /\ Running
    /\ sc.next <= NumRepos
    /\ HasFreeSlot(rt, sc.limit)
    /\ rt' = [rt EXCEPT ![sc.next].pc = "start"]
    /\ sc' = [sc EXCEPT !.next = @ + 1]
    /\ UNCHANGED <<world, reqOwner, reqWorkflows, cacheResults, cachedResults, wt, ut>>
    /\ UNCHANGED <<parseVars, retryVars, fileVars, scannerVars, logsVars, listVars, matchVars>>

\* g.Wait returns; the deferred scanner.Close closes the results channel
ScanWait ==
    /\ sc.pc = "spawn"
    /\ Running
    /\ sc.next > NumRepos
    /\ AllDone(rt, NumRepos)
    /\ sc' = [sc EXCEPT !.pc = "closing"]
    /\ UNCHANGED <<world, reqOwner, reqWorkflows, cacheResults, cachedResults, rt, wt, ut>>
    /\ UNCHANGED <<parseVars, retryVars, fileVars, scannerVars, logsVars, listVars, matchVars>>

\* collect leaves its loop, flushes a non-empty cache and closes done;
\* Close and Scan return
CollectorExit ==
    /\ sc.pc = "closing"
    /\ Running
    /\ fsPath' = (IF Len(cacheResults) > 0 THEN WriteCache(cacheResults) ELSE fsPath)
    /\ sc' = [sc EXCEPT !.pc = "returned"]
    /\ UNCHANGED <<world, reqOwner, reqWorkflows, cacheResults, cachedResults, rt, wt, ut>>
    /\ UNCHANGED <<fsTemp, memResults, writerPc, cleanCache>>
    /\ UNCHANGED <<parseVars, retryVars, scannerVars, logsVars, listVars, matchVars>>

\* ---- a repository task ----

\* select { case <-gCtx.Done(): return gCtx.Err() ...
RepoCancelled(r) ==
    /\ rt[r].pc = "start"
    /\ Running
    /\ sc.err
    /\ rt' = [rt EXCEPT ![r] = [@ EXCEPT !.pc = "done", !.status = "cancelled"]]
    /\ UNCHANGED <<world, reqOwner, reqWorkflows, cacheResults, cachedResults, sc, wt, ut>>
    /\ UNCHANGED <<parseVars, retryVars, fileVars, scannerVars, logsVars, listVars, matchVars>>

\* ... default: SearchWorkflowFiles under WithRetry fails and the task
\* returns the error
RepoSearchFails(r) ==
    /\ rt[r].pc = "start"
    /\ Running
    /\ ~sc.err
    /\ rt' = [rt EXCEPT ![r] = [@ EXCEPT !.pc = "done", !.status = "failed"]]
    /\ sc' = [sc EXCEPT !.err = TRUE]
    /\ UNCHANGED <<world, reqOwner, reqWorkflows, cacheResults, cachedResults, wt, ut>>
    /\ UNCHANGED <<parseVars, retryVars, fileVars, scannerVars, logsVars, listVars, matchVars>>

\* ... or succeeds: req.Owner, req.RepoName and req.Workflows are written
RepoSearch(r) ==
    /\ rt[r].pc = "start"
    /\ Running
    /\ ~sc.err
    /\ reqOwner' = r
    /\ reqWorkflows' = WorkflowPaths(r)
    /\ rt' = [rt EXCEPT ![r].pc = "range"]
    /\ UNCHANGED <<world, cacheResults, cachedResults, sc, wt, ut>>
    /\ UNCHANGED <<parseVars, retryVars, fileVars, scannerVars, logsVars, listVars, matchVars>>

\* scanWorkflows: for _, wfPath := range req.Workflows
RepoRange(r) ==
    /\ rt[r].pc = "range"
    /\ Running
    /\ rt' = [rt EXCEPT ![r] = [@ EXCEPT !.pc = "spawn", !.wfs = reqWorkflows, !.next = 1]]
    /\ UNCHANGED <<world, reqOwner, reqWorkflows, cacheResults, cachedResults, sc, wt, ut>>
    /\ UNCHANGED <<parseVars, retryVars, fileVars, scannerVars, logsVars, listVars, matchVars>>

\* g.Go of the next workflow file, once a slot is free
RepoSpawnWorkflow(r) ==
    /\ rt[r].pc = "spawn"
    /\ Running
    /\ rt[r].next <= Len(rt[r].wfs)
    /\ HasFreeSlot(wt[r], WorkflowLimit)
    /\ wt' = [wt EXCEPT ![r][rt[r].next] =
                 [@ EXCEPT !.pc = "start", !.name = rt[r].wfs[rt[r].next]]]
    /\ rt' = [rt EXCEPT ![r].next = @ + 1]
    /\ UNCHANGED <<world, reqOwner, reqWorkflows, cacheResults, cachedResults, sc, ut>>
    /\ UNCHANGED <<parseVars, retryVars, fileVars, scannerVars, logsVars, listVars, matchVars>>

\* return g.Wait(): the repository task returns what scanWorkflows returns
\* (the locals of a returned call are dropped)
RepoWait(r) ==
    /\ rt[r].pc = "spawn"
    /\ Running
    /\ rt[r].next > Len(rt[r].wfs)
    /\ AllDone(wt[r], Len(rt[r].wfs))
    /\ rt' = [rt EXCEPT ![r] = [IdleRepo EXCEPT !.pc = "done", !.err = rt[r].err,
                                                !.status = IF rt[r].err THEN "failed" ELSE "ok"]]
    /\ sc' = [sc EXCEPT !.err = GroupErr(@, rt[r].err)]
    /\ UNCHANGED <<world, reqOwner, reqWorkflows, cacheResults, cachedResults, wt, ut>>
    /\ UNCHANGED <<parseVars, retryVars, fileVars, scannerVars, logsVars, listVars, matchVars>>

\* ---- a workflow task ----

\* the select on gCtx.Done(), then the cache-key check
WorkflowStart(r, i) ==
    /\ wt[r][i].pc = "start"
    /\ Running
    /\ wt' = [wt EXCEPT ![r][i] =
                 IF rt[r].err THEN [@ EXCEPT !.pc = "done", !.status = "cancelled"]
                 ELSE IF <<reqOwner, wt[r][i].name>> \in cachedResults
                   THEN [@ EXCEPT !.pc = "done", !.status = "skipped"]
                 ELSE [@ EXCEPT !.pc = "resolve"]]
    /\ UNCHANGED <<world, reqOwner, reqWorkflows, cacheResults, cachedResults, sc, rt, ut>>
    /\ UNCHANGED <<parseVars, retryVars, fileVars, scannerVars, logsVars, listVars, matchVars>>

\* GetWorkflowByPath under WithRetry fails, or the WithRetry around
\* ListWorkflowRuns does
WorkflowResolveFails(r, i) ==
    /\ wt[r][i].pc = "resolve"
    /\ Running
    /\ wt' = [wt EXCEPT ![r][i] = [@ EXCEPT !.pc = "done", !.status = "failed"]]
    /\ rt' = [rt EXCEPT ![r].err = TRUE]
    /\ UNCHANGED <<world, reqOwner, reqWorkflows, cacheResults, cachedResults, sc, ut>>
    /\ UNCHANGED <<parseVars, retryVars, fileVars, scannerVars, logsVars, listVars, matchVars>>

\* ... or both succeed for the repository req names now; scanRuns begins
WorkflowResolve(r, i) ==
    /\ wt[r][i].pc = "resolve"
    /\ Running
    /\ reqOwner # 0
    /\ HasWorkflow(reqOwner, wt[r][i].name)
    /\ wt' = [wt EXCEPT ![r][i] =
                 [@ EXCEPT !.pc = "spawn", !.next = 1,
                           !.runs = ListWorkflowRuns(reqOwner, wt[r][i].name),
                           !.listErr = ListingFails(reqOwner, wt[r][i].name)]]
    /\ UNCHANGED <<world, reqOwner, reqWorkflows, cacheResults, cachedResults, sc, rt, ut>>
    /\ UNCHANGED <<parseVars, retryVars, fileVars, scannerVars, logsVars, listVars, matchVars>>

\* g.Go of the next run, once a slot is free
WorkflowSpawnRun(r, i) ==
    /\ wt[r][i].pc = "spawn"
    /\ Running
    /\ wt[r][i].next <= Len(wt[r][i].runs)
    /\ HasFreeSlot(ut[r][i], RunLimit)
    /\ ut' = [ut EXCEPT ![r][i][wt[r][i].next] =
                 [@ EXCEPT !.pc = "start", !.id = wt[r][i].runs[wt[r][i].next]]]
    /\ wt' = [wt EXCEPT ![r][i].next = @ + 1]
    /\ UNCHANGED <<world, reqOwner, reqWorkflows, cacheResults, cachedResults, sc, rt>>
    /\ UNCHANGED <<parseVars, retryVars, fileVars, scannerVars, logsVars, listVars, matchVars>>

\* err := g.Wait(); if err != nil { return err }; otherwise req.Cache.Results
\* is read for the append
WorkflowWait(r, i) ==
    /\ wt[r][i].pc = "spawn"
    /\ Running
    /\ wt[r][i].next > Len(wt[r][i].runs)
    /\ AllDone(ut[r][i], Len(wt[r][i].runs))
    /\ wt' = [wt EXCEPT ![r][i] =
                 IF wt[r][i].err
                   THEN [IdleWorkflow EXCEPT !.pc = "done", !.status = "failed",
                                             !.name = wt[r][i].name, !.err = TRUE,
                                             !.listErr = wt[r][i].listErr]
                 ELSE [@ EXCEPT !.pc = "append", !.old = cacheResults]]
    /\ rt' = [rt EXCEPT ![r].err = GroupErr(@, wt[r][i].err)]
    /\ UNCHANGED <<world, reqOwner, reqWorkflows, cacheResults, cachedResults, sc, ut>>
    /\ UNCHANGED <<parseVars, retryVars, fileVars, scannerVars, logsVars, listVars, matchVars>>

\* req.Cache.Results = append(req.Cache.Results, runResults...)
WorkflowAppend(r, i) ==
    /\ wt[r][i].pc = "append"
    /\ Running
    /\ cacheResults' = wt[r][i].old \o wt[r][i].runResults
    /\ wt' = [wt EXCEPT ![r][i] =
                 [IdleWorkflow EXCEPT !.pc = "done", !.status = "ok", !.name = wt[r][i].name,
                                      !.listErr = wt[r][i].listErr]]
    /\ UNCHANGED <<world, reqOwner, reqWorkflows, cachedResults, sc, rt, ut>>
    /\ UNCHANGED <<parseVars, retryVars, fileVars, scannerVars, logsVars, listVars, matchVars>>

\* ---- a run task ----

\* select { case <-gCtx.Done(): return gCtx.Err() ...
RunCancelled(r, i, k) ==
    /\ ut[r][i][k].pc = "start"
    /\ Running
    /\ wt[r][i].err
    /\ ut' = [ut EXCEPT ![r][i][k] = [@ EXCEPT !.pc = "done", !.status = "cancelled"]]
    /\ UNCHANGED <<world, reqOwner, reqWorkflows, cacheResults, cachedResults, sc, rt, wt>>
    /\ UNCHANGED <<parseVars, retryVars, fileVars, scannerVars, logsVars, listVars, matchVars>>

\* ... default: GetLogs under WithRetry fails and the task returns the
\* error; rc, err = wf.GetLogs(...) has stored the nil reader in rc
RunGetLogsFails(r, i, k) ==
    /\ ut[r][i][k].pc = "start"
    /\ Running
    /\ ~wt[r][i].err
    /\ ut' = [ut EXCEPT ![r][i][k] = [@ EXCEPT !.pc = "done", !.status = "failed"]]
    /\ wt' = [wt EXCEPT ![r][i] = [@ EXCEPT !.err = TRUE, !.rc = NoStream]]
    /\ UNCHANGED <<world, reqOwner, reqWorkflows, cacheResults, cachedResults, sc, rt>>
    /\ UNCHANGED <<parseVars, retryVars, fileVars, scannerVars, logsVars, listVars, matchVars>>

\* ... or succeeds: the stream is stored in rc, which the run tasks of one
\* scanRuns call share
RunGetLogs(r, i, k) ==
    /\ ut[r][i][k].pc = "start"
    /\ Running
    /\ ~wt[r][i].err
    /\ wt' = [wt EXCEPT ![r][i].rc = [of |-> ut[r][i][k].id, consumed |-> FALSE]]
    /\ ut' = [ut EXCEPT ![r][i][k].pc = "scan"]
    /\ UNCHANGED <<world, reqOwner, reqWorkflows, cacheResults, cachedResults, sc, rt>>
    /\ UNCHANGED <<parseVars, retryVars, fileVars, scannerVars, logsVars, listVars, matchVars>>

\* the stream rc names is read, extracted and parsed; Results are built,
\* appended to runResults under resultsMu, and the cache is written when
\* len(req.Cache.Results) is a multiple of 10
RunScan(r, i, k) ==
    /\ ut[r][i][k].pc = "scan"
    /\ Running
    /\ LET stream == wt[r][i].rc
           parsed == ParseLogs(RunLog(stream.of), TRUE)
           findings == BuildFindings(reqOwner, wt[r][i].name, ut[r][i][k].id,
                                     parsed.findings, parsed.emptyLinesInfo)
       IN
       IF stream = NoStream
         THEN \* rc is nil: defer rc.Close() panics and the program ends
              /\ ut' = [ut EXCEPT ![r][i][k] = [@ EXCEPT !.pc = "panicked",
                                                         !.status = "panicked"]]
              /\ UNCHANGED <<wt, fsPath>>
       ELSE IF stream.consumed
         THEN \* nothing is left to read: ExtractLogs returns an error
              /\ ut' = [ut EXCEPT ![r][i][k] = [@ EXCEPT !.pc = "done", !.status = "failed"]]
              /\ wt' = [wt EXCEPT ![r][i].err = TRUE]
              /\ UNCHANGED fsPath
       ELSE IF CancelledNoJobs(stream.of)
         THEN \* the preview contains "was canceled with no jobs": return nil
              /\ ut' = [ut EXCEPT ![r][i][k] = [@ EXCEPT !.pc = "done", !.status = "ok"]]
              /\ wt' = [wt EXCEPT ![r][i].rc.consumed = TRUE]
              /\ UNCHANGED fsPath
       ELSE IF ~parsed.foundIssues \/ Len(parsed.findings) = 0
         THEN /\ ut' = [ut EXCEPT ![r][i][k] =
                           [@ EXCEPT !.pc = "done", !.status = "ok",
                                     !.found = parsed.foundIssues]]
              /\ wt' = [wt EXCEPT ![r][i].rc.consumed = TRUE]
              /\ UNCHANGED fsPath
       ELSE   /\ ut' = [ut EXCEPT ![r][i][k] =
                           [@ EXCEPT !.pc = "done", !.status = "ok",
                                     !.found = parsed.foundIssues,
                                     !.findings = findings]]
              /\ wt' = [wt EXCEPT ![r][i] =
                           [@ EXCEPT !.rc.consumed = TRUE,
                                     !.runResults = @ \o findings]]
              /\ fsPath' = (IF Len(cacheResults) % FlushSize = 0
                              THEN WriteCache(cacheResults) ELSE fsPath)
    /\ UNCHANGED <<world, reqOwner, reqWorkflows, cacheResults, cachedResults, sc, rt>>
    /\ UNCHANGED <<fsTemp, memResults, writerPc, cleanCache>>
    /\ UNCHANGED <<parseVars, retryVars, scannerVars, logsVars, listVars, matchVars>>

ScanNext ==
    \/ ScanSpawnRepo
    \/ ScanWait
    \/ CollectorExit
    \/ \E r \in RepoIds :
         \/ RepoCancelled(r)
         \/ RepoSearchFails(r)
         \/ RepoSearch(r)
         \/ RepoRange(r)
         \/ RepoSpawnWorkflow(r)
         \/ RepoWait(r)
    \/ \E r \in RepoIds, i \in WfSlots :
         \/ WorkflowStart(r, i)
         \/ WorkflowResolveFails(r, i)
         \/ WorkflowResolve(r, i)
         \/ WorkflowSpawnRun(r, i)
         \/ WorkflowWait(r, i)
         \/ WorkflowAppend(r, i)
    \/ \E r \in RepoIds, i \in WfSlots, k \in RunSlots :
         \/ RunCancelled(r, i, k)
         \/ RunGetLogsFails(r, i, k)
         \/ RunGetLogs(r, i, k)
         \/ RunScan(r, i, k)

SpecScan == ScanInit /\ [][ScanNext]_vars

\* the worlds in which termination is checked: the one with the most
\* workflow files, the one with the most runs and the one whose listing fails
FairWorlds == {"wide", "deep", "lossy"}

ScanFairInit == ScanInit /\ world \in FairWorlds

\* the Go scheduler runs a goroutine that can take a step, and every network
\* operation returns: a step of the scan that stays possible is taken
SpecScanFair == ScanFairInit /\ [][ScanNext]_vars /\ WF_vars(ScanNext)

(***************************************************************************)
(* Properties of the orchestrator (checked under SpecScan).                *)
(***************************************************************************)
Units ==
    { rt[r] : r \in RepoIds }
    \cup { wt[r][i] : r \in RepoIds, i \in WfSlots }
    \cup { ut[r][i][k] : r \in RepoIds, i \in WfSlots, k \in RunSlots }

\* C1: the failure of a run, a workflow file or a repository never makes a
\* sibling unit return without being scanned: no task of any tier ends
\* because its group was cancelled.
C1_NoSiblingCancelled == \A u \in Units : u.status # "cancelled"

InCache(res) == \E j \in 1..Len(cacheResults) : cacheResults[j] = res

\* C2: when Scan has returned, the cache holds the preloaded Result and every
\* Result built by a run task that returned nil.
C2_CacheHoldsSuccessful ==
    sc.pc = "returned" =>
        /\ cachedResults # {} => InCache(Preloaded)
        /\ \A r \in RepoIds, i \in WfSlots, k \in RunSlots :
               ut[r][i][k].status = "ok" =>
                   \A j \in 1..Len(ut[r][i][k].findings) : InCache(ut[r][i][k].findings[j])

\* C3: no run of a (repository, workflow file) pair of the loaded cache has
\* its logs fetched, and no Result appended in the session belongs to such a
\* pair.
C3_CachedPairUntouched ==
    /\ \A r \in RepoIds, i \in WfSlots, k \in RunSlots :
           ut[r][i][k].pc = "scan" =>
               <<ut[r][i][k].id[1], ut[r][i][k].id[2]>> \notin cachedResults
    /\ \A j \in 1..Len(cacheResults) :
           j > Cardinality(cachedResults) =>
               <<cacheResults[j].Repository, cacheResults[j].WorkflowFileName>>
                   \notin cachedResults

\* C10: a run task that ends normally with a positive detector result has
\* built at least one Result.
C10_PositiveDetectionRecorded ==
    \A r \in RepoIds, i \in WfSlots, k \in RunSlots :
        (ut[r][i][k].status = "ok" /\ ut[r][i][k].found) =>
            Len(ut[r][i][k].findings) >= 1

\* C11: the cache file is written only by the collector task, never by a
\* scan task: every step that changes the file at the cache path is the
\* collector's.
C11_OnlyCollectorWrites == [][fsPath' # fsPath => sc.pc = "closing"]_vars

\* C12: no Result appended by a task is lost to another task's append: once
\* a workflow task has appended its run results and returned, the Results
\* its runs built stay in the cache.
C12_NoAppendLost ==
    \A r \in RepoIds, i \in WfSlots :
        wt[r][i].status = "ok" =>
            \A k \in RunSlots :
                \A j \in 1..Len(ut[r][i][k].findings) : InCache(ut[r][i][k].findings[j])

\* C15: the set of (repository, workflow file) keys of the cache, in memory
\* and in the file at the cache path, never loses a member.
C15_KeysNeverShrink ==
    [][ /\ CacheKeys(cacheResults) \subseteq CacheKeys(cacheResults')
        /\ CacheKeys(fsPath.data) \subseteq CacheKeys(fsPath'.data) ]_vars

\* C32: processed units are remembered.  When Scan has returned, every
\* (repository, workflow file) unit whose scan completed in the session has
\* its key among the keys of the file at the cache path, from which the next
\* session builds its skip set.
C32_CompletedUnitsKeyed ==
    sc.pc = "returned" =>
        \A r \in RepoIds, i \in WfSlots :
            wt[r][i].status = "ok" => <<r, wt[r][i].name>> \in CacheKeys(fsPath.data)

\* C35: repository tasks do not share their owner, name or workflow list.
\* The workflow files a repository task ranges over are its repository's;
\* the runs a workflow task lists are runs of its own repository; every
\* Result names in Repository the repository whose run produced it.
C35_OwnRepository ==
    /\ \A r \in RepoIds :
          rt[r].pc = "spawn" => rt[r].wfs = WorkflowPaths(r)
    /\ \A r \in RepoIds, i \in WfSlots :
          \A n \in 1..Len(wt[r][i].runs) : wt[r][i].runs[n][1] = r
    /\ \A r \in RepoIds, i \in WfSlots, k \in RunSlots :
          \A j \in 1..Len(ut[r][i][k].findings) :
              /\ ut[r][i][k].findings[j].Repository = r
              /\ ut[r][i][k].findings[j].Repository = ut[r][i][k].id[1]

\* C36: run tasks do not share their log stream.  A run task that extracts
\* and scans a stream reads the stream its own GetLogs call returned, no
\* task finds its stream already read by another, and the Results of a run
\* are those of that run's own log.
C36_OwnStream ==
    [][ \A r \in RepoIds, i \in WfSlots, k \in RunSlots :
          ( ut[r][i][k].pc = "scan" /\ ut'[r][i][k].pc = "done" ) =>
              /\ wt[r][i].rc.of = ut[r][i][k].id
              /\ ~wt[r][i].rc.consumed
              /\ ut'[r][i][k].status = "ok" ]_vars

\* C17: at every moment at most max_concurrency repository tasks run, at
\* most 2 workflow tasks per repository task and at most 2 run tasks per
\* workflow task.
C17_LimitsHold ==
    /\ Active(rt) <= sc.limit
    /\ \A r \in RepoIds : Active(wt[r]) <= WorkflowLimit
    /\ \A r \in RepoIds, i \in WfSlots : Active(ut[r][i]) <= RunLimit

\* with max_concurrency 1 the second repository waits for the first, whose
\* workflow has two runs running and a third waiting for a slot
C17_Witness ==
    /\ sc.limit = 1
    /\ sc.next = 2
    /\ Active(rt) = 1
    /\ wt[1][1].pc = "spawn"
    /\ wt[1][1].next = 3
    /\ Len(wt[1][1].runs) = 3
    /\ Active(ut[1][1]) = RunLimit

\* all the workflow files of a repository but one have been started, two of
\* them are running and the last waits for a slot
C17_WorkflowTierFull ==
    /\ rt[1].pc = "spawn"
    /\ rt[1].next = 3
    /\ Len(rt[1].wfs) = 3
    /\ Active(wt[1]) = WorkflowLimit

\* C18: a run that was cancelled with no jobs, for which GetLogs returned the
\* placeholder text, leaves the orchestrator with no Result and no error:
\* its task returns nil and adds nothing to the Results of its workflow.
C18_CancelledRunRecordsNothing ==
    [][ \A r \in RepoIds, i \in WfSlots, k \in RunSlots :
          ( /\ ut[r][i][k].pc = "scan"
            /\ CancelledNoJobs(ut[r][i][k].id)
            /\ ut'[r][i][k].pc = "done" ) =>
              /\ ut'[r][i][k].status = "ok"
              /\ ut'[r][i][k].findings = <<>>
              /\ wt'[r][i].runResults = wt[r][i].runResults ]_vars


\* some repository, workflow-file or run unit of the session failed: its
\* task returned an error, or the listing of its runs did
AnyUnitFailed ==
    \E r \in RepoIds :
      \/ rt[r].status = "failed"
      \/ \E i \in WfSlots :
           \/ wt[r][i].status = "failed"
           \/ wt[r][i].listErr
           \/ \E k \in RunSlots : ut[r][i][k].status = "failed"

\* C28: unit failures reach the caller.  When Scan has returned, its error is
\* non-nil if some repository, workflow-file or run unit failed, and nil if
\* every unit succeeded or was skipped through the cache.
C28_FailureSurfaced ==
    sc.pc = "returned" => (sc.err <=> AnyUnitFailed)


-----------------------------------------------------------------------------
(***************************************************************************)
(* The checkpoint collector: Scanner of pkg/action/scanner.go.  Producers  *)
(* call Add, which sends a non-empty batch on the buffered channel         *)
(* s.results; collect receives the batches one by one; Close closes the    *)
(* channel and waits for collect to close s.done.  A Result is written as  *)
(* the number of the batch it came in (0: it was in the cache before).     *)
(***************************************************************************)
\* results: make(chan []tjscan.Result, 10)
ChanCap == 10

RECURSIVE Repeat(_, _)
Repeat(x, n) == IF n = 0 THEN <<>> ELSE <<x>> \o Repeat(x, n - 1)

Batch(id, size) == [id |-> id, size |-> size]

\* mutant: collect leaves without the final flush
FinalFlushNever(results, file) == file

\* if len(s.cache.Results) > 0 { file.WriteCache(...) }
FinalFlush(results, file) ==
    IF Len(results) > 0 THEN WriteCache(results) ELSE file

\* if len(s.cache.Results)%s.flushSize == 0 { file.WriteCache(...) }
BatchFlush(results, file) ==
    IF Len(results) % FlushSize = 0 THEN WriteCache(results) ELSE file

\* NewScanner: the cache is empty or one Result short of the flush size
ScannerInit ==
    /\ chanResults = <<>>
    /\ chanClosed = FALSE
    /\ scCache \in { <<>>, Repeat(0, FlushSize - 1) }
    /\ collPc = "recv"
    /\ added = <<>>
    /\ closePc = "open"
    /\ fsPath = (IF scCache = <<>> THEN Absent ELSE Complete(scCache))
    /\ fsTemp = Absent
    /\ memResults = <<>>
    /\ writerPc = "halted"
    /\ cleanCache = FALSE
    /\ ParseIdle
    /\ RetryIdle
    /\ MatchIdle
    /\ ListIdle
    /\ LogsIdle
    /\ ScanIdle

\* Add(results): a non-empty batch is sent once the channel has room
Add ==
    /\ closePc = "open"
    /\ Len(added) < MaxBatches
    /\ \E size \in 0..MaxBatchSize :
         LET b == Batch(Len(added) + 1, size) IN
         /\ size > 0 => Len(chanResults) < ChanCap
         /\ added' = Append(added, b)
         /\ chanResults' = (IF size > 0 THEN Append(chanResults, b) ELSE chanResults)
    /\ UNCHANGED <<chanClosed, scCache, collPc, closePc>>
    /\ UNCHANGED <<parseVars, retryVars, fileVars, scanVars, logsVars, listVars, matchVars>>

\* one iteration of for results := range s.results
CollectBatch ==
    /\ collPc = "recv"
    /\ chanResults # <<>>
    /\ LET b == Head(chanResults)
           grown == scCache \o Repeat(b.id, b.size) IN
       /\ scCache' = grown
       /\ fsPath' = BatchFlush(grown, fsPath)
    /\ chanResults' = Tail(chanResults)
    /\ UNCHANGED <<chanClosed, collPc, added, closePc>>
    /\ UNCHANGED <<fsTemp, memResults, writerPc, cleanCache>>
    /\ UNCHANGED <<parseVars, retryVars, scanVars, logsVars, listVars, matchVars>>

\* the channel is closed and drained: the final flush, then close(s.done)
CollectExit ==
    /\ collPc = "recv"
    /\ chanResults = <<>>
    /\ chanClosed
    /\ fsPath' = FinalFlush(scCache, fsPath)
    /\ collPc' = "done"
    /\ UNCHANGED <<chanResults, chanClosed, scCache, added, closePc>>
    /\ UNCHANGED <<fsTemp, memResults, writerPc, cleanCache>>
    /\ UNCHANGED <<parseVars, retryVars, scanVars, logsVars, listVars, matchVars>>

\* Close: close(s.results)
Close ==
    /\ closePc = "open"
    /\ chanClosed' = TRUE
    /\ closePc' = "waiting"
    /\ UNCHANGED <<chanResults, scCache, collPc, added>>
    /\ UNCHANGED <<parseVars, retryVars, fileVars, scanVars, logsVars, listVars, matchVars>>

\* Close: <-s.done
CloseReturn ==
    /\ closePc = "waiting"
    /\ collPc = "done"
    /\ closePc' = "returned"
    /\ UNCHANGED <<chanResults, chanClosed, scCache, collPc, added>>
    /\ UNCHANGED <<parseVars, retryVars, fileVars, scanVars, logsVars, listVars, matchVars>>

ScannerNext ==
    \/ Add
    \/ CollectBatch
    \/ CollectExit
    \/ Close
    \/ CloseReturn

SpecScanner == ScannerInit /\ [][ScannerNext]_vars

(***************************************************************************)
(* Properties of the collector (checked under SpecScanner).                *)
(***************************************************************************)
Occurrences(id) == Cardinality({ j \in 1..Len(scCache) : scCache[j] = id })

C14_FlushOnCrossing ==
    [][ (Len(scCache') \div FlushSize > Len(scCache) \div FlushSize)
            => fsPath' = Complete(scCache') ]_vars

-----------------------------------------------------------------------------
(***************************************************************************)
(* GetLogs of pkg/workflow/logs.go.  Every request goes through an         *)
(* http.Client built with only a Timeout: with no CheckRedirect the client *)
(* follows an answer that redirects (a 302 with a Location header) by      *)
(* itself, inside Do, and hands GetLogs the answer of the last request.    *)
(***************************************************************************)
Statuses == {200, 302, 307, 404, 410, 500}

\* the statuses the client takes for a redirect (two of 301, 302, 303, 307, 308)
RedirectStatuses == {302, 307}

\* what a server may answer to the next request: any status, a redirect
\* with a Location as long as the chain of redirects is not too long, or no
\* answer at all
Redirects(requests) ==
    Cardinality({ j \in 1..Len(requests) :
                    requests[j].status \in RedirectStatuses /\ requests[j].location })

Answers(requests) ==
    { Answer(s, FALSE) : s \in Statuses }
    \cup { NoResp }
    \cup (IF Redirects(requests) < MaxHops
            THEN { Answer(s, TRUE) : s \in RedirectStatuses } ELSE {})

Request(kind, by, answer) ==
    [kind |-> kind, by |-> by, status |-> answer.status, location |-> answer.location]

\* the default redirect policy of http.Client
FollowsRedirect(answer) == answer.status \in RedirectStatuses /\ answer.location

isCancelled == runInfo.cancelled

ErrorRet == [kind |-> "error", of |-> 0]

\* io.NopCloser(strings.NewReader("Run %d was canceled with no jobs"))
NoJobsPlaceholder == [kind |-> "noJobsPlaceholder", of |-> 0]

\* io.NopCloser(strings.NewReader("Run %d was canceled, no job logs available"))
Placeholder == [kind |-> "placeholder", of |-> 0]

\* resp.Body of the n-th request
Body(n) == [kind |-> "body", of |-> n]

PlaceholderOrError == IF isCancelled THEN Placeholder ELSE ErrorRet

\* what GetLogs does with the answer Do returned for the export request
\* (caller "export") or for the redirect request (caller "redirect")
AfterDo(caller, answer, n) ==
    IF answer.status = 0 THEN [pc |-> "done", ret |-> ErrorRet]
    ELSE IF caller = "export"
      THEN IF answer.status \in {404, 410} THEN [pc |-> "ui", ret |-> NoLogsRet]
           ELSE IF answer.status = 302
             THEN IF ~answer.location THEN [pc |-> "done", ret |-> ErrorRet]
                  ELSE [pc |-> "redirect", ret |-> NoLogsRet]
           ELSE IF answer.status # 200 THEN [pc |-> "done", ret |-> PlaceholderOrError]
           ELSE [pc |-> "done", ret |-> Body(n)]
    ELSE IF answer.status # 200 THEN [pc |-> "done", ret |-> PlaceholderOrError]
         ELSE [pc |-> "done", ret |-> Body(n)]

LogsInit ==
    /\ runInfo \in [cancelled : BOOLEAN, jobs : 0..1]
    /\ glPc = "probe"
    /\ glRequests = <<>>
    /\ resp = NoResp
    /\ glCaller = "none"
    /\ glRet = NoLogsRet
    /\ ui = NoUI
    /\ runRet = NoRunRet
    /\ ParseIdle
    /\ RetryIdle
    /\ MatchIdle
    /\ ListIdle
    /\ FileIdle
    /\ ScanIdle
    /\ ScannerIdle

\* the run-status request and what follows from its answer
StatusProbe ==
    /\ glPc = "probe"
    /\ \E answer \in { NoResp, Answer(200, FALSE), Answer(404, FALSE), Answer(500, FALSE) } :
         /\ glRequests' = Append(glRequests, Request("status", "GetLogs", answer))
         /\ IF answer.status # 200
              THEN glPc' = "done" /\ glRet' = ErrorRet
            ELSE IF isCancelled /\ runInfo.jobs = 0
              THEN glPc' = "done" /\ glRet' = NoJobsPlaceholder
            ELSE glPc' = "export" /\ glRet' = glRet
    /\ UNCHANGED <<runInfo, resp, glCaller, ui>>
    /\ UNCHANGED runRet
    /\ UNCHANGED <<parseVars, retryVars, fileVars, scanVars, scannerVars, listVars, matchVars>>

\* httpClient.Do(req) and httpClient.Do(redirectReq): the request GetLogs
\* built is sent
Do ==
    /\ glPc \in {"export", "redirect"}
    /\ \E answer \in Answers(glRequests) :
         /\ glRequests' = Append(glRequests,
                Request(IF glPc = "export" THEN "export" ELSE "target", "GetLogs", answer))
         /\ resp' = answer
    /\ glCaller' = glPc
    /\ glPc' = "client"
    /\ UNCHANGED <<runInfo, glRet, ui>>
    /\ UNCHANGED runRet
    /\ UNCHANGED <<parseVars, retryVars, fileVars, scanVars, scannerVars, listVars, matchVars>>

\* inside Do: the client requests the Location of a redirect itself
ClientFollow ==
    /\ glPc = "client"
    /\ FollowsRedirect(resp)
    /\ \E answer \in Answers(glRequests) :
         /\ glRequests' = Append(glRequests, Request("target", "client", answer))
         /\ resp' = answer
    /\ UNCHANGED <<runInfo, glPc, glCaller, glRet, ui>>
    /\ UNCHANGED runRet
    /\ UNCHANGED <<parseVars, retryVars, fileVars, scanVars, scannerVars, listVars, matchVars>>

\* Do returns the last answer and GetLogs looks at its status
DoReturns ==
    /\ glPc = "client"
    /\ ~FollowsRedirect(resp)
    /\ LET after == AfterDo(glCaller, resp, Len(glRequests)) IN
       /\ glPc' = after.pc
       /\ glRet' = after.ret
    /\ glCaller' = "none"
    /\ UNCHANGED <<runInfo, glRequests, resp, ui>>
    /\ UNCHANGED runRet
    /\ UNCHANGED <<parseVars, retryVars, fileVars, scanVars, scannerVars, listVars, matchVars>>

\* ---- the UI fallback: getUILogs, scanUI, combineLogs ----
JobIds == 1..MaxJobs

\* a text is a sequence of pieces; the texts a job's page or raw log holds
NewLine == "\n"

JobTexts == { <<"a">>, <<"b", NewLine, "c">> }

\* fmt.Sprintf("===== JOB ID: %d =====\n", jobID)
JobHeader(jobID) == <<"===== JOB ID: ", ToString(jobID), " =====", NewLine>>

\* mutant: the selector pass loses the block's text
SelectorLogBlank(text) == <<NewLine>>

\* scanUI, selector pass: logsBuilder holds the block's text and "\n"
SelectorLog(text) == text \o <<NewLine>>

\* a job whose log was retrieved: the log, where scanUI found it and the
\* text that was there
Fetched(jobID, via, text) ==
    [job |-> jobID, via |-> via, page |-> text,
     log |-> IF via = "selector" THEN SelectorLog(text) ELSE text]

\* sort.Slice(jobIDs, ...): the fetched logs in ascending order of job ID
RECURSIVE SortByJobID(_)
SortByJobID(entries) ==
    IF entries = <<>> THEN <<>>
    ELSE LET least == CHOOSE n \in 1..Len(entries) :
                          \A m \in 1..Len(entries) : entries[n].job <= entries[m].job
             rest == [m \in 1..(Len(entries) - 1) |->
                          IF m < least THEN entries[m] ELSE entries[m + 1]]
         IN <<entries[least]>> \o SortByJobID(rest)

\* the loop of combineLogs over the sorted job IDs
RECURSIVE WriteJobs(_)
WriteJobs(entries) ==
    IF entries = <<>> THEN <<>>
    ELSE JobHeader(Head(entries).job) \o Head(entries).log \o <<NewLine, NewLine>>
         \o WriteJobs(Tail(entries))

\* mutant: the jobs are written in the order they were fetched
combineLogsAsFetched(entries) == WriteJobs(entries)

combineLogs(entries) == WriteJobs(SortByJobID(entries))

\* return combinedLogs, nil
Combined(entries) == [kind |-> "combined", of |-> 0, text |-> combineLogs(entries)]

\* the errors of getUILogs as GetLogs wraps them: the message the error
\* carries and the jobs it names
UIError(msg, jobs) == [kind |-> "error", of |-> 0, msg |-> msg, jobs |-> jobs]

\* mutant: the error of an empty job list is handled like any other
NoJobIDsReturnError == UIError("no job IDs found", {})

\* getUILogs found no job: strings.Contains(err.Error(), "no job IDs found")
NoJobIDsReturn ==
    IF isCancelled THEN Placeholder ELSE UIError("no job IDs found", {})

\* mutant: the loop over the jobs ends at the first job that fails
AfterFetchErrorStop(pending, jobID) == {}

\* fetchErrors = append(...); continue
AfterFetchError(pending, jobID) == pending \ {jobID}

\* getUILogs: the run page is requested and searched for job IDs
UIRunPage ==
    /\ glPc = "ui"
    /\ \/ /\ \E answer \in { NoResp, Answer(404, FALSE), Answer(500, FALSE) } :
               glRequests' = Append(glRequests, Request("ui", "getUILogs", answer))
          /\ glRet' = UIError("run page", {})
          /\ glPc' = "done"
          /\ UNCHANGED ui
       \/ /\ glRequests' = Append(glRequests, Request("ui", "getUILogs", Answer(200, FALSE)))
          /\ \E jobIDs \in SUBSET JobIds :
               IF jobIDs = {}
                 THEN /\ glRet' = NoJobIDsReturn
                      /\ glPc' = "done"
                      /\ UNCHANGED ui
               ELSE   /\ ui' = [NoUI EXCEPT !.jobIDs = jobIDs, !.pending = jobIDs]
                      /\ glPc' = "jobs"
                      /\ UNCHANGED glRet
    /\ UNCHANGED <<runInfo, resp, glCaller>>
    /\ UNCHANGED runRet
    /\ UNCHANGED <<parseVars, retryVars, fileVars, scanVars, scannerVars, listVars, matchVars>>

\* one iteration of for jobID, jobName := range jobIDs (a map: any order):
\* scanUI requests the job page; the page cannot be had, holds no log, holds
\* a log block a known selector finds, or links to a raw log that is fetched
ScanUIJob ==
    /\ glPc = "jobs"
    /\ \E jobID \in ui.pending :
         \/ /\ \E answer \in { NoResp, Answer(404, FALSE) } :
                 glRequests' = Append(glRequests, Request("job", "scanUI", answer))
            /\ ui' = [ui EXCEPT !.pending = AfterFetchError(@, jobID),
                                !.fetchErrors = Append(@, jobID)]
         \/ /\ glRequests' = Append(glRequests, Request("job", "scanUI", Answer(200, FALSE)))
            /\ \/ ui' = [ui EXCEPT !.pending = AfterFetchError(@, jobID),
                                   !.fetchErrors = Append(@, jobID)]
               \/ \E text \in JobTexts :
                    ui' = [ui EXCEPT !.pending = @ \ {jobID},
                                     !.fetched = Append(@, Fetched(jobID, "selector", text))]
         \/ /\ glRequests' = Append(Append(glRequests,
                                 Request("job", "scanUI", Answer(200, FALSE))),
                                 Request("raw", "scanUI", Answer(200, FALSE)))
            /\ \E text \in JobTexts :
                 ui' = [ui EXCEPT !.pending = @ \ {jobID},
                                  !.fetched = Append(@, Fetched(jobID, "raw", text))]
    /\ UNCHANGED <<runInfo, glPc, resp, glCaller, glRet>>
    /\ UNCHANGED runRet
    /\ UNCHANGED <<parseVars, retryVars, fileVars, scanVars, scannerVars, listVars, matchVars>>

\* every job has been tried: getUILogs returns, GetLogs combines the logs
UIFinish ==
    /\ glPc = "jobs"
    /\ ui.pending = {}
    /\ glRet' = IF ui.fetched = <<>> /\ ui.fetchErrors # <<>>
                  THEN UIError("failed to fetch any job logs",
                               { ui.fetchErrors[n] : n \in 1..Len(ui.fetchErrors) })
                ELSE IF ui.fetched = <<>> THEN PlaceholderOrError
                ELSE Combined(ui.fetched)
    /\ glPc' = "done"
    /\ UNCHANGED <<runInfo, glRequests, resp, glCaller, ui>>
    /\ UNCHANGED runRet
    /\ UNCHANGED <<parseVars, retryVars, fileVars, scanVars, scannerVars, listVars, matchVars>>

\* ---- the run task of scanRuns, from the return of GetLogs on ----
\* zip.NewReader(bytes.NewReader(data), ...) in ExtractLogs: the body of a
\* 200 answer to the export request is the archive; the texts GetLogs builds
\* itself (placeholders, combined job logs) are not
IsArchive(ret) == ret.kind = "body"

\* ExtractLogs: the concatenated files of the archive, or the error of
\* zip.NewReader
ExtractLogs(ret) ==
    IF IsArchive(ret) THEN [err |-> FALSE, text |-> <<ret>>]
    ELSE [err |-> TRUE, text |-> <<>>]

\* strings.Contains(preview, "was canceled with no jobs")
PreviewSkips(ret) == ret.kind = "noJobsPlaceholder"

\* what the closure passed to g.Go returns, and the text it handed to
\* ParseLogs
RunTaskReturn(ret) ==
    IF ret.kind = "error"
      THEN [err |-> "failed to download logs", parsed |-> <<>>]
    ELSE IF PreviewSkips(ret) THEN [err |-> "nil", parsed |-> <<>>]
    ELSE IF ExtractLogs(ret).err
      THEN [err |-> "error extracting logs", parsed |-> <<>>]
    ELSE [err |-> "nil", parsed |-> ExtractLogs(ret).text]

\* the run task goes on after GetLogs returned
RunTask ==
    /\ glPc = "done"
    /\ runRet = NoRunRet
    /\ runRet' = RunTaskReturn(glRet)
    /\ UNCHANGED <<runInfo, glPc, glRequests, resp, glCaller, glRet, ui>>
    /\ UNCHANGED <<parseVars, retryVars, fileVars, scanVars, scannerVars, listVars, matchVars>>

LogsNext ==
    \/ StatusProbe
    \/ Do
    \/ ClientFollow
    \/ DoReturns
    \/ UIRunPage
    \/ ScanUIJob
    \/ UIFinish
    \/ RunTask

SpecLogs == LogsInit /\ [][LogsNext]_vars

(***************************************************************************)
(* Properties of GetLogs (checked under SpecLogs).                         *)
(***************************************************************************)
RequestsOf(kind) == { j \in 1..Len(glRequests) : glRequests[j].kind = kind }

\* the placeholder of a cancelled run with no jobs is returned with nothing
\* but the status request made
NoJobsShortCircuit ==
    glRet = NoJobsPlaceholder =>
        /\ isCancelled /\ runInfo.jobs = 0
        /\ RequestsOf("status") = 1..Len(glRequests)

\* C19: GetLogs requests the run's web page if and only if the log-export
\* endpoint answered 404 or 410, and never before the export request.
C19_UIFallbackIffExportGone ==
    /\ \A u \in RequestsOf("ui") :
         \E e \in RequestsOf("export") : e < u /\ glRequests[e].status \in {404, 410}
    /\ glPc = "done" =>
         \A e \in RequestsOf("export") :
             glRequests[e].status \in {404, 410} => RequestsOf("ui") # {}

\* C20: when the export endpoint answers 302 (with a Location), the redirect
\* target is requested exactly once and no second hop is followed; GetLogs
\* returns the target's body if the target answers 200, and otherwise the
\* placeholder for a cancelled run and an error for any other run.
C20_SingleHop ==
    \A e \in RequestsOf("export") :
        (glPc = "done" /\ glRequests[e].status = 302 /\ glRequests[e].location) =>
            /\ Cardinality(RequestsOf("target")) = 1
            /\ \A t \in RequestsOf("target") :
                 /\ glRequests[t].status = 200 => glRet = Body(t)
                 /\ glRequests[t].status \notin {0, 200} => glRet = PlaceholderOrError

\* C21: when the export endpoint answers a status other than 200, 302, 404
\* and 410, GetLogs returns the placeholder text for a cancelled run and an
\* error for any other run.
C21_OtherStatus ==
    \A e \in RequestsOf("export") :
        (glPc = "done" /\ glRequests[e].status \notin {0, 200, 302, 404, 410}) =>
            glRet = PlaceholderOrError

\* the run page was had and no job ID was found on it
NoJobOnRunPage ==
    /\ glPc = "done"
    /\ \E u \in RequestsOf("ui") : glRequests[u].status = 200
    /\ ui.jobIDs = {}

\* C22: in the UI fallback, when the run page names no job, GetLogs returns
\* the placeholder text for a cancelled run and otherwise an error carrying
\* "no job IDs found"; no job page is requested in either case.
C22_NoJobIDs ==
    NoJobOnRunPage =>
        /\ isCancelled => glRet = Placeholder
        /\ ~isCancelled => glRet.kind = "error" /\ glRet.msg = "no job IDs found"
        /\ RequestsOf("job") = {}
        /\ RequestsOf("raw") = {}

\* a cancelled run whose page names no job ended with the placeholder
C22_Witness ==
    /\ NoJobOnRunPage
    /\ isCancelled
    /\ glRet = Placeholder

\* the jobs whose log was retrieved, and the jobs whose header line is in a text
FetchedJobs == { ui.fetched[n].job : n \in 1..Len(ui.fetched) }

HeadersIn(text) ==
    { j \in JobIds : \E n \in 1..Len(text) :
          n + 3 <= Len(text) /\ SubSeq(text, n, n + 3) = JobHeader(j) }

LogOf(j) == (CHOOSE n \in 1..Len(ui.fetched) : ui.fetched[n].job = j)

\* the jobs of a set in ascending order of ID, each as its header line, its
\* text and a blank line
RECURSIVE InAscendingOrder(_)
InAscendingOrder(jobs) ==
    IF jobs = {} THEN <<>>
    ELSE LET j == CHOOSE x \in jobs : \A y \in jobs : x <= y IN
         JobHeader(j) \o ui.fetched[LogOf(j)].log \o <<NewLine, NewLine>>
         \o InAscendingOrder(jobs \ {j})

\* C24: the combined text holds the per-job texts in ascending numeric order
\* of job ID, each preceded by its "===== JOB ID: <id> =====" line and
\* followed by a blank line, whatever the order the jobs were fetched in.
C24_CombinedOrder ==
    (glPc = "done" /\ ui.fetched # <<>>) =>
        /\ glRet.kind = "combined"
        /\ glRet.text = InAscendingOrder(FetchedJobs)

\* two jobs were fetched, the one with the greater ID first
C24_Witness ==
    /\ glPc = "done"
    /\ Len(ui.fetched) = 2
    /\ ui.fetched[1].job > ui.fetched[2].job
    /\ ui.fetched[1].log # ui.fetched[2].log
    /\ glRet.kind = "combined"

\* the export endpoint answered 404 and the run page listed the single job
\* j, whose page held the text in a block a known selector finds
SingleSelectorJob(j, text) ==
    /\ glPc = "done"
    /\ \E e \in RequestsOf("export") : glRequests[e].status = 404
    /\ ui.jobIDs = {j}
    /\ ui.fetched = <<Fetched(j, "selector", text)>>

\* C25 as stated: in that case GetLogs succeeds and returns exactly the
\* job's header line followed by the text T.
C25_ExactlyT ==
    \A j \in JobIds, text \in JobTexts :
        SingleSelectorJob(j, text) =>
            /\ glRet.kind = "combined"
            /\ glRet.text = JobHeader(j) \o text

\* C25 as amended: GetLogs succeeds and returns the job's header line, the
\* text T and then three line breaks (the end of T's last line and the two
\* that close a job's text in the combined output), and nothing else.
C25_TThenLineBreaks ==
    \A j \in JobIds, text \in JobTexts :
        SingleSelectorJob(j, text) =>
            /\ glRet.kind = "combined"
            /\ glRet.text = JobHeader(j) \o text \o <<NewLine, NewLine, NewLine>>

\* the fallback ended with the log of a single job found by a selector
C25_Witness ==
    \E j \in JobIds : SingleSelectorJob(j, <<"b", NewLine, "c">>)

-----------------------------------------------------------------------------
(***************************************************************************)
(* ListWorkflowRuns (pkg/file/output.go): the window from start to end is  *)
(* split into sub-windows of chunkDuration, each sub-window is listed      *)
(* through the API and the runs listed are filtered by creation time.      *)
(* Instants are whole hours; a run is named by its creation instant.       *)
(***************************************************************************)

\* the instants of the model are the multiples of twelve hours up to this many
MaxHalfDays == 10

\* most runs the workflow has
MaxCreated == 2

\* chunkDuration := 48 * time.Hour
chunkDuration == 48

Instants == { 12 * h : h \in 0..MaxHalfDays }

\* struct { chunkStart, chunkEnd time.Time }
Chunk(from, to) == [chunkStart |-> from, chunkEnd |-> to]

\* what ListWorkflowRunsByID answers for Created: "chunkStart..chunkEnd" when
\* every page is read: the runs created in the range, both bounds included
Listed(chunk) == { c \in created : chunk.chunkStart <= c /\ c <= chunk.chunkEnd }

\* createdAt.After(chunk.chunkStart) && createdAt.Before(chunk.chunkEnd)
InChunk(c, chunk) == chunk.chunkStart < c /\ c < chunk.chunkEnd

\* the runs of one answer in the order they are appended
RECURSIVE InOrder(_)
InOrder(S) ==
    IF S = {} THEN <<>>
    ELSE LET least == CHOOSE c \in S : \A d \in S : c <= d IN
         <<least>> \o InOrder(S \ {least})

ListInit ==
    /\ start \in Instants
    /\ end \in { e \in Instants : start <= e }
    /\ created \in { S \in SUBSET Instants : Cardinality(S) <= MaxCreated }
    /\ lwPc = "split"
    /\ chunkStart = start
    /\ timeChunks = <<>>
    /\ nextChunk = 1
    /\ allRuns = <<>>
    /\ listFailed = FALSE
    /\ ParseIdle
    /\ RetryIdle
    /\ MatchIdle
    /\ FileIdle
    /\ ScanIdle
    /\ ScannerIdle
    /\ LogsIdle

\* for chunkStart := start; chunkStart.Before(end); chunkStart =
\* chunkStart.Add(chunkDuration): one iteration
SplitStep ==
    /\ lwPc = "split"
    /\ chunkStart < end
    /\ LET chunkEnd == IF chunkStart + chunkDuration > end THEN end
                       ELSE chunkStart + chunkDuration IN
       timeChunks' = Append(timeChunks, Chunk(chunkStart, chunkEnd))
    /\ chunkStart' = chunkStart + chunkDuration
    /\ UNCHANGED <<start, end, created, lwPc, nextChunk, allRuns, listFailed>>
    /\ UNCHANGED <<parseVars, retryVars, fileVars, scanVars, scannerVars, logsVars, matchVars>>

\* the splitting loop ends
SplitDone ==
    /\ lwPc = "split"
    /\ ~(chunkStart < end)
    /\ lwPc' = "list"
    /\ UNCHANGED <<start, end, created, chunkStart, timeChunks, nextChunk, allRuns,
                   listFailed>>
    /\ UNCHANGED <<parseVars, retryVars, fileVars, scanVars, scannerVars, logsVars, matchVars>>

\* the body of the loop over timeChunks: the sub-window is listed under
\* WithRetry; when that fails the error is logged and the pages read before
\* the failure are kept; the runs read are filtered and appended
ListChunk ==
    /\ lwPc = "list"
    /\ nextChunk <= Len(timeChunks)
    /\ LET chunk == timeChunks[nextChunk] IN
       \E ok \in BOOLEAN :
         \E chunkRuns \in (IF ok THEN { Listed(chunk) } ELSE SUBSET Listed(chunk)) :
           /\ allRuns' = allRuns \o InOrder({ c \in chunkRuns : InChunk(c, chunk) })
           /\ listFailed' = (listFailed \/ ~ok)
    /\ nextChunk' = nextChunk + 1
    /\ UNCHANGED <<start, end, created, lwPc, chunkStart, timeChunks>>
    /\ UNCHANGED <<parseVars, retryVars, fileVars, scanVars, scannerVars, logsVars, matchVars>>

\* return allRuns, nil
ListReturn ==
    /\ lwPc = "list"
    /\ nextChunk > Len(timeChunks)
    /\ lwPc' = "returned"
    /\ UNCHANGED <<start, end, created, chunkStart, timeChunks, nextChunk, allRuns,
                   listFailed>>
    /\ UNCHANGED <<parseVars, retryVars, fileVars, scanVars, scannerVars, logsVars, matchVars>>

ListNext ==
    \/ SplitStep
    \/ SplitDone
    \/ ListChunk
    \/ ListReturn

SpecList == ListInit /\ [][ListNext]_vars

(***************************************************************************)
(* Properties of ListWorkflowRuns (checked under SpecList).                *)
(***************************************************************************)

\* the sub-windows are contiguous, none is empty or longer than
\* chunkDuration, and together they are the window from start to end
ChunksCoverWindow ==
    lwPc # "split" =>
      /\ (start = end) <=> (timeChunks = <<>>)
      /\ timeChunks # <<>> =>
           /\ timeChunks[1].chunkStart = start
           /\ timeChunks[Len(timeChunks)].chunkEnd = end
      /\ \A i \in 1..Len(timeChunks) :
           /\ timeChunks[i].chunkStart < timeChunks[i].chunkEnd
           /\ timeChunks[i].chunkEnd - timeChunks[i].chunkStart <= chunkDuration
           /\ i < Len(timeChunks) => timeChunks[i].chunkEnd = timeChunks[i + 1].chunkStart

\* how many times the run created at c is in the runs returned
TimesReturned(c) == Cardinality({ i \in 1..Len(allRuns) : allRuns[i] = c })

\* C29: run listing.  The window is split into contiguous sub-windows of at
\* most 48 hours that cover it exactly, and when every listing succeeded the
\* runs returned are the runs created at or after start and before end, each
\* exactly once: a run created at start or at a sub-window boundary
\* included, and no run created outside the window.
C29_EachRunOnce ==
    /\ ChunksCoverWindow
    /\ (lwPc = "returned" /\ ~listFailed) =>
         /\ \A c \in created :
              TimesReturned(c) = (IF start <= c /\ c < end THEN 1 ELSE 0)
         /\ \A i \in 1..Len(allRuns) : allRuns[i] \in created

-----------------------------------------------------------------------------
(***************************************************************************)
(* The pattern of the detector, (?:^|\s+)([A-Za-z0-9+/]{40,}={0,3}), as    *)
(* regex.FindAllStringSubmatch applies it to one line.  A line is the      *)
(* sequence of its runs: a run is a maximal stretch of characters of one   *)
(* class, "alpha" (A-Z a-z 0-9 + /), "pad" (=), "space" (white space) or   *)
(* "other".  A token is named by the run its alphabet characters are.      *)
(***************************************************************************)

\* most runs of a line
MaxSegments == 3

\* {40,}
MinTokenLen == 40

\* ={0,3}
MaxPad == 3

Classes == {"alpha", "pad", "space", "other"}

\* the lengths of the runs
SegLens == {1, MaxPad, MaxPad + 1, MinTokenLen - 1, MinTokenLen, MinTokenLen + 1}

Segment(class, len) == [class |-> class, len |-> len]

Segments == { Segment(c, n) : c \in Classes, n \in SegLens }

\* the lines of at most MaxSegments runs; neighbouring runs differ in class
RxLines ==
    { l \in SeqsUpTo(Segments, MaxSegments) :
        \A i \in 1..(Len(l) - 1) : l[i].class # l[i + 1].class }

\* ms[1]: the alphabet characters of run `at` and the padding captured
Token(at, len, pad) == [at |-> at, len |-> len, pad |-> pad]

\* a match can start at the head of the line (^) or at the white space
\* before run j (\s+), and goes on with 40 or more alphabet characters
MatchAt(l, j) ==
    /\ l[j].class = "alpha"
    /\ l[j].len >= MinTokenLen
    /\ (IF j = 1 THEN TRUE ELSE l[j - 1].class = "space")

\* the group of the match at run j: the whole run, then up to three "="
Captured(l, j) ==
    Token(j, l[j].len,
          IF j < Len(l) /\ l[j + 1].class = "pad"
            THEN (IF l[j + 1].len < MaxPad THEN l[j + 1].len ELSE MaxPad)
            ELSE 0)

MatchInit ==
    /\ rxLine \in RxLines
    /\ rxPos = 1
    /\ allMatches = <<>>
    /\ rxPc = "find"
    /\ ParseIdle
    /\ RetryIdle
    /\ FileIdle
    /\ ScanIdle
    /\ ScannerIdle
    /\ LogsIdle
    /\ ListIdle

\* the leftmost match at or after rxPos is found; the search resumes after it
FindNextMatch ==
    /\ rxPc = "find"
    /\ \E j \in rxPos..Len(rxLine) :
         /\ MatchAt(rxLine, j)
         /\ \A i \in rxPos..(j - 1) : ~MatchAt(rxLine, i)
         /\ allMatches' = Append(allMatches, Captured(rxLine, j))
         /\ rxPos' = j + 1
    /\ UNCHANGED <<rxLine, rxPc>>
    /\ UNCHANGED <<parseVars, retryVars, fileVars, scanVars, scannerVars, logsVars, listVars>>

\* no match is left: FindAllStringSubmatch returns
FindNoMatch ==
    /\ rxPc = "find"
    /\ \A j \in rxPos..Len(rxLine) : ~MatchAt(rxLine, j)
    /\ rxPc' = "done"
    /\ UNCHANGED <<rxLine, rxPos, allMatches>>
    /\ UNCHANGED <<parseVars, retryVars, fileVars, scanVars, scannerVars, logsVars, listVars>>

MatchNext ==
    \/ FindNextMatch
    \/ FindNoMatch

SpecMatch == MatchInit /\ [][MatchNext]_vars

(***************************************************************************)
(* Properties of the pattern (checked under SpecMatch).                    *)
(***************************************************************************)

\* the runs of the line that are tokens of 40 or more alphabet characters
LongTokens == { j \in 1..Len(rxLine) :
                  rxLine[j].class = "alpha" /\ rxLine[j].len >= MinTokenLen }

\* the runs the captured tokens are
Extracted == { allMatches[i].at : i \in 1..Len(allMatches) }

\* what is captured is alphabet characters, 40 or more, and at most three "="
OnlyLongTokens ==
    \A i \in 1..Len(allMatches) :
      /\ allMatches[i].at \in LongTokens
      /\ allMatches[i].len = rxLine[allMatches[i].at].len
      /\ allMatches[i].pad <= MaxPad

\* C30: pattern pass.  When the line has been matched, every maximal token
\* of 40 or more alphabet characters of the line has been extracted,
\* whatever character precedes it, and nothing else has: no token shorter
\* than 40 characters and none with a character outside the alphabet.
C30_EveryLongToken ==
    /\ OnlyLongTokens
    /\ rxPc = "done" => Extracted = LongTokens


(***************************************************************************)
(* Properties of the run task's handling of what GetLogs returned         *)
(* (checked under SpecLogs).                                               *)
(***************************************************************************)
\* the text GetLogs returned with a nil error that is not an export archive
NonArchiveText == {"combined", "placeholder", "noJobsPlaceholder"}

\* the placeholder of a cancelled run without jobs ends the task with nil
\* and nothing parsed
NoJobsPlaceholderSkipped ==
    runRet # NoRunRet /\ glRet = NoJobsPlaceholder =>
        runRet = [err |-> "nil", parsed |-> <<>>]

\* C37: text GetLogs returned successfully that is no export archive (the
\* combined job logs of the UI fallback, either placeholder of a cancelled
\* run) is handled without an extraction error: the run task returns nil,
\* combined job logs are handed to ParseLogs and a placeholder is not
C37_NonArchiveHandled ==
    runRet # NoRunRet /\ glRet.kind \in NonArchiveText =>
        /\ runRet.err = "nil"
        /\ glRet.kind = "combined" => runRet.parsed = <<glRet>>
        /\ glRet.kind # "combined" => runRet.parsed = <<>>

(***************************************************************************)
(* Termination of Scan (checked under SpecScanFair).                       *)
(***************************************************************************)
\* as long as no goroutine panics, every group drains and Scan returns
ReturnsUnlessPanic == <>(sc.pc = "returned" \/ ~Running)

\* C39: Scan terminates.  Whatever the repositories, workflow files and runs
\* and whatever the limit of at least 1, when every network operation
\* returns, the task groups drain, the collector makes its final flush and
\* Scan returns to its caller.
C39_ScanReturns == <>(sc.pc = "returned")

====
